---- MODULE Spec2Model ----
(***************************************************************************)
(* Semantic analysis of the uC front end: the global and local             *)
(* environments, the type and function objects, the AST node classes and   *)
(* the analysis passes that run over a syntax tree.                        *)
(*                                                                         *)
(* Nodes are identified by their path from the root (the sequence of child *)
(* indices), which stands for the node object and for its source position. *)
(* An analysis is threaded through a record s that holds every mutable     *)
(* object of the program; an exception is the field s.raised, and once it  *)
(* is set every operator returns s unchanged (the exception propagates).   *)
(***************************************************************************)
EXTENDS Integers, Sequences, FiniteSets, TLC

VARIABLES
    prog,      \* the syntax tree handed over by the parser
    pc,        \* number of passes completed by the driver (or "unit")
    gtypes,    \* GlobalEnv.__types: name -> type object
    gfuncs,    \* GlobalEnv.__functions: name -> function object
    fsig,      \* rettype and param_types of the user function objects
    envs,      \* the VarEnv objects, in order of creation
    ntype,     \* the type attribute of the nodes
    nfunc,     \* the func attribute of the nodes
    nenv,      \* the local_env / env attribute of the nodes
    synth,     \* return nodes whose expr was filled in by resolve_types
    errs,      \* the errors reported so far; error.num_errors is Len(errs)
    disabled,  \* error.disabled
    raised,    \* the exception that ended the run, "" while none
    ctx,       \* the PhaseContext
    ndecls,    \* declaration nodes handed to the GlobalEnv by direct calls
    heap,      \* the type objects in order of creation, with their
               \* _array_type caches (followed by direct calls only)
    last       \* the most recent direct call on an environment, its result

vars == <<prog, pc, gtypes, gfuncs, fsig, envs, ntype, nfunc, nenv, synth,
          errs, disabled, raised, ctx, ndecls, heap, last>>

----------------------------------------------------------------------------
(* Bounds of the model *)

MaxDepth == 2       \* statements nested around the statements under analysis
MaxArgs == 2        \* arguments of a call or a new expression
MaxEnvs == 2        \* VarEnv objects created by direct calls
MaxDecls == 2       \* declarations entered into an environment by direct calls
MaxErrors == 2      \* errors reported in a run of direct calls
MaxArrays == 2      \* array type objects created by direct reads of array_type

----------------------------------------------------------------------------
(* Type objects (uctypes.py).  A type object is identified by its kind,    *)
(* its name, the declaration it was created for and, for array types, the  *)
(* number of [] around the element type (array_type caches one array type  *)
(* per element type, so this identifies the object).                       *)

NoPath == <<0>>
Builtin == <<0>>

PrimitiveType(name) == [k |-> "prim", name |-> name, decl |-> Builtin, dims |-> 0]
UserType(name, decl) == [k |-> "user", name |-> name, decl |-> decl, dims |-> 0]
UncomputedType == [k |-> "uncomputed", name |-> "<uncomputed type>", decl |-> Builtin, dims |-> 0]
NoneValue == [k |-> "None", name |-> "None", decl |-> Builtin, dims |-> 0]

BuiltinTypeNames == {"int", "long", "double", "boolean", "string", "void", "null"}

add_builtin_types == [name \in BuiltinTypeNames |-> PrimitiveType(name)]

IsArrayType(t) == t.k # "uncomputed" /\ t.k # "None" /\ t.dims > 0
IsUserType(t) == t.k = "user" /\ t.dims = 0
IsPrimitiveType(t) == t.k = "prim" /\ t.dims = 0

array_type(t) == IF t.k = "uncomputed" THEN t ELSE [t EXCEPT !.dims = @ + 1]
elem_type(t) == IF t.k = "uncomputed" THEN t ELSE [t EXCEPT !.dims = @ - 1]
has_elem_type(t) == t.k = "uncomputed" \/ IsArrayType(t)

integral_typenames == {"int", "long"}
numerical_typenames == integral_typenames \cup {"double"}
numerical_conversions == {<<"int", "long">>, <<"int", "double">>, <<"long", "double">>}

\* str(type): the name, with one [] per array level
TypeStr(t) == <<t.name, t.dims>>

is_numeric(t) == IsPrimitiveType(t) /\ t.name \in numerical_typenames
is_integral(t) == IsPrimitiveType(t) /\ t.name \in integral_typenames

\* is_convertible_to with the numerical conversions taken in both directions
is_convertible_to_either_way(t, other) ==
    \/ t = other
    \/ /\ IsPrimitiveType(t)
       /\ \/ /\ other.dims = 0
             /\ \/ <<t.name, other.name>> \in numerical_conversions
                \/ <<other.name, t.name>> \in numerical_conversions
          \/ /\ t.name = "null"
             /\ (IsArrayType(other) \/ IsUserType(other))

is_convertible_to(t, other) ==
    \/ t = other
    \/ /\ IsPrimitiveType(t)
       /\ \/ /\ other.dims = 0
             /\ <<t.name, other.name>> \in numerical_conversions
          \/ /\ t.name = "null"
             /\ (IsArrayType(other) \/ IsUserType(other))

----------------------------------------------------------------------------
(* Type objects by identity.  Above, a type object is identified by its    *)
(* class, name, declaration and array depth; here the objects are the      *)
(* entries of a sequence, elem_type and _array_type refer to entries by    *)
(* index, and 0 is None.                                                   *)

\* Type.__init__: no array type yet
TypeObject(t) == [type |-> t, elem_type |-> 0, array_type |-> 0]

\* ArrayType.__init__, of the element type object elem of h
ArrayType(h, elem) ==
    [type |-> [h[elem].type EXCEPT !.dims = @ + 1],
     elem_type |-> elem, array_type |-> 0]

\* the uncomputed type and the builtin types of add_builtin_types
BuiltinObjects ==
    <<TypeObject(UncomputedType), TypeObject(PrimitiveType("int")),
      TypeObject(PrimitiveType("long")), TypeObject(PrimitiveType("double")),
      TypeObject(PrimitiveType("boolean")), TypeObject(PrimitiveType("string")),
      TypeObject(PrimitiveType("void")), TypeObject(PrimitiveType("null"))>>

\* the array_type property creating a fresh array type at every read
Type_array_type_uncached(h, t) ==
    IF h[t].type.k = "uncomputed"
    THEN [heap |-> h, ret |-> t]
    ELSE [heap |-> Append([h EXCEPT ![t].array_type = Len(h) + 1],
                          ArrayType(h, t)),
          ret |-> Len(h) + 1]

\* the property T.array_type read on object t of h: the objects after the
\* read, and the object returned
Type_array_type(h, t) ==
    IF h[t].type.k = "uncomputed"
    THEN [heap |-> h, ret |-> t]
    ELSE IF h[t].array_type = 0
         THEN [heap |-> Append([h EXCEPT ![t].array_type = Len(h) + 1],
                               ArrayType(h, t)),
               ret |-> Len(h) + 1]
         ELSE [heap |-> h, ret |-> h[t].array_type]

----------------------------------------------------------------------------
(* Function objects (ucfunctions.py) *)

PrimitiveFunction(name) == [k |-> "prim", name |-> name, decl |-> Builtin]
UserFunction(name, decl) == [k |-> "user", name |-> name, decl |-> decl]
UncomputedFunction == [k |-> "uncomputed", name |-> "<uncomputed function>", decl |-> Builtin]
NoFunction == [k |-> "None", name |-> "None", decl |-> Builtin]

Sig(ret, params) ==
    [rettype |-> PrimitiveType(ret),
     params |-> [i \in 1..Len(params) |-> PrimitiveType(params[i])]]

add_conversions ==
    [name \in {"long_to_int", "double_to_int", "string_to_int",
               "int_to_long", "double_to_long", "string_to_long",
               "int_to_double", "long_to_double", "string_to_double",
               "int_to_string", "long_to_string", "double_to_string",
               "string_to_boolean", "boolean_to_string"} |->
        CASE name = "long_to_int" -> Sig("int", <<"long">>)
          [] name = "double_to_int" -> Sig("int", <<"double">>)
          [] name = "string_to_int" -> Sig("int", <<"string">>)
          [] name = "int_to_long" -> Sig("long", <<"int">>)
          [] name = "double_to_long" -> Sig("long", <<"double">>)
          [] name = "string_to_long" -> Sig("long", <<"string">>)
          [] name = "int_to_double" -> Sig("double", <<"int">>)
          [] name = "long_to_double" -> Sig("double", <<"long">>)
          [] name = "string_to_double" -> Sig("double", <<"string">>)
          [] name = "int_to_string" -> Sig("string", <<"int">>)
          [] name = "long_to_string" -> Sig("string", <<"long">>)
          [] name = "double_to_string" -> Sig("string", <<"double">>)
          [] name = "string_to_boolean" -> Sig("boolean", <<"string">>)
          [] name = "boolean_to_string" -> Sig("string", <<"boolean">>)]

add_builtin_functions ==
    add_conversions @@
    [name \in {"length", "substr", "ordinal", "character", "pow", "sqrt",
               "ceil", "floor", "print", "println", "peekchar", "readchar",
               "readline", "exit"} |->
        CASE name = "length" -> Sig("int", <<"string">>)
          [] name = "substr" -> Sig("string", <<"string", "int", "int">>)
          [] name = "ordinal" -> Sig("int", <<"string">>)
          [] name = "character" -> Sig("string", <<"int">>)
          [] name = "pow" -> Sig("double", <<"double", "double">>)
          [] name = "sqrt" -> Sig("double", <<"double">>)
          [] name = "ceil" -> Sig("double", <<"double">>)
          [] name = "floor" -> Sig("double", <<"double">>)
          [] name = "print" -> Sig("void", <<"string">>)
          [] name = "println" -> Sig("void", <<"string">>)
          [] name = "peekchar" -> Sig("string", <<>>)
          [] name = "readchar" -> Sig("string", <<>>)
          [] name = "readline" -> Sig("string", <<>>)
          [] name = "exit" -> Sig("void", <<"int">>)]

\* rettype and param_types of a function object
rettype(s, f) ==
    CASE f.k = "prim" -> add_builtin_functions[f.name].rettype
      [] f.k = "uncomputed" -> UncomputedType
      [] OTHER -> s.fsig[f].rettype

param_types(s, f) ==
    CASE f.k = "prim" -> add_builtin_functions[f.name].params
      [] f.k = "uncomputed" -> <<>>
      [] OTHER -> s.fsig[f].params

----------------------------------------------------------------------------
(* Errors (ucerror.py) *)

NoInfo == [name |-> "", prev |-> NoPath, exp |-> NoneValue, got |-> NoneValue,
           index |-> 0, trace |-> <<>>]

\* error() counting whether or not reporting is enabled
error_always_counted(s, phase, position, msg, info) ==
    [s EXCEPT !.errs = Append(@, [phase |-> phase, at |-> position,
                                   msg |-> msg, name |-> info.name,
                                   prev |-> info.prev, exp |-> info.exp,
                                   got |-> info.got,
                                   index |-> info.index,
                                   trace |-> info.trace])]

\* error(phase, position, message): counted only while reporting is enabled
error(s, phase, position, msg, info) ==
    IF ~s.disabled
    THEN [s EXCEPT !.errs = Append(@, [phase |-> phase, at |-> position,
                                        msg |-> msg, name |-> info.name,
                                        prev |-> info.prev, exp |-> info.exp,
                                        got |-> info.got,
                                        index |-> info.index,
                                        trace |-> info.trace])]
    ELSE s

error_count(s) == Len(s.errs)

disable_errors(s) == [s EXCEPT !.disabled = TRUE]

raise(s, exc) == [s EXCEPT !.raised = exc]

----------------------------------------------------------------------------
(* GlobalEnv (ucbase.py).  Operators that return a value leave it in       *)
(* s.rett (a type) or s.retf (a function).                                 *)

\* add_type that rebinds the name on a collision
add_type_rebinding(s, phase, position, name, declnode) ==
    LET type_ == UserType(name, declnode)
        s1 == IF name \in DOMAIN s.gtypes
              THEN error(s, phase, position, "redefinition of type",
                         [NoInfo EXCEPT !.name = name,
                                        !.prev = s.gtypes[name].decl])
              ELSE s
    IN [s1 EXCEPT !.gtypes = (name :> type_) @@ @, !.rett = type_]

add_type(s, phase, position, name, declnode) ==
    LET type_ == UserType(name, declnode)
        s1 == IF name \in DOMAIN s.gtypes
              THEN error(s, phase, position, "redefinition of type",
                         [NoInfo EXCEPT !.name = name,
                                        !.prev = s.gtypes[name].decl])
              ELSE [s EXCEPT !.gtypes = (name :> type_) @@ @]
    IN [s1 EXCEPT !.rett = type_]

add_function(s, phase, position, name, declnode) ==
    LET func == UserFunction(name, declnode)
        s0 == [s EXCEPT !.fsig = (func :> [rettype |-> NoneValue,
                                           params |-> <<>>]) @@ @]
        s1 == IF name \in DOMAIN s.gfuncs
              THEN error(s0, phase, position, "redefinition of function",
                         [NoInfo EXCEPT !.name = name,
                                        !.prev = s.gfuncs[name].decl])
              ELSE [s0 EXCEPT !.gfuncs = (name :> func) @@ @]
    IN [s1 EXCEPT !.retf = func]

lookup_type(s, phase, position, name, strict) ==
    IF name \notin DOMAIN s.gtypes
    THEN IF strict
         THEN [error(s, phase, position, "undefined type",
                     [NoInfo EXCEPT !.name = name])
               EXCEPT !.rett = s.gtypes["int"]]
         ELSE [s EXCEPT !.rett = NoneValue]
    ELSE [s EXCEPT !.rett = s.gtypes[name]]

\* lookup_function that ignores strict
lookup_function_always_strict(s, phase, position, name, strict) ==
    IF name \notin DOMAIN s.gfuncs
    THEN [error(s, phase, position, "undefined function",
                [NoInfo EXCEPT !.name = name])
          EXCEPT !.retf = s.gfuncs["string_to_int"]]
    ELSE [s EXCEPT !.retf = s.gfuncs[name]]

lookup_function(s, phase, position, name, strict) ==
    IF name \notin DOMAIN s.gfuncs
    THEN IF strict
         THEN [error(s, phase, position, "undefined function",
                     [NoInfo EXCEPT !.name = name])
               EXCEPT !.retf = s.gfuncs["string_to_int"]]
         ELSE [s EXCEPT !.retf = NoFunction]
    ELSE [s EXCEPT !.retf = s.gfuncs[name]]

----------------------------------------------------------------------------
(* VarEnv (ucbase.py).  Environment 0 is None.                             *)

VarEnv(s, parent_env, has_global_env) ==
    [s EXCEPT !.envs = Append(@, [parent |-> parent_env,
                                  genv |-> has_global_env,
                                  vars |-> <<>>])]

\* -1, the line number of a name that is not declared
NotDeclared == <<-1>>

\* get_line_number that does not ask the parent environment
get_line_number_own_scope(s, e, name) ==
    IF name \in DOMAIN s.envs[e].vars
    THEN s.envs[e].vars[name].pos
    ELSE NotDeclared

RECURSIVE get_line_number(_, _, _)
get_line_number(s, e, name) ==
    IF name \in DOMAIN s.envs[e].vars
    THEN s.envs[e].vars[name].pos
    ELSE IF s.envs[e].parent # 0
         THEN get_line_number(s, s.envs[e].parent, name)
         ELSE NotDeclared

contains(s, e, name) == get_line_number(s, e, name) # NotDeclared

\* add_variable that binds the name even when it reports a redeclaration
add_variable_rebinding(s, phase, position, e, name, var_type) ==
    LET previous_line == get_line_number(s, e, name)
        s1 == IF previous_line # NotDeclared
              THEN error(s, phase, position, "redeclaration",
                         [NoInfo EXCEPT !.name = name, !.prev = previous_line])
              ELSE s
    IN [s1 EXCEPT !.envs[e].vars =
                     (name :> [type |-> var_type, pos |-> position]) @@ @]

add_variable(s, phase, position, e, name, var_type) ==
    LET previous_line == get_line_number(s, e, name)
    IN IF previous_line # NotDeclared
       THEN error(s, phase, position, "redeclaration",
                  [NoInfo EXCEPT !.name = name, !.prev = previous_line])
       ELSE [s EXCEPT !.envs[e].vars =
                         (name :> [type |-> var_type, pos |-> position]) @@ @]

RECURSIVE get_type(_, _, _, _, _)
get_type(s, phase, position, e, name) ==
    IF name \in DOMAIN s.envs[e].vars
    THEN [s EXCEPT !.rett = s.envs[e].vars[name].type]
    ELSE IF s.envs[e].parent = 0
         THEN LET s1 == error(s, phase, position,
                              "undefined variable or field",
                              [NoInfo EXCEPT !.name = name])
              IN IF s.envs[e].genv
                 THEN lookup_type(s1, phase, position, "int", TRUE)
                 ELSE raise(s1, "AttributeError: 'NoneType' object has no attribute 'lookup_type'")
         ELSE get_type(s, phase, position, s.envs[e].parent, name)

----------------------------------------------------------------------------
(* The AST node classes (ucbase.py, ucstmt.py, ucexpr.py).  kids lists the  *)
(* child nodes in field order; a NameNode child is kept as the string it   *)
(* wraps (the class overrides no pass and has only a terminal child).      *)

None == [kind |-> "None", kids |-> <<>>]
ExpressionNode == [kind |-> "Expression", kids |-> <<>>]

ProgramNode(decls) == [kind |-> "Program", kids |-> decls]
TypeNameNode(name) == [kind |-> "TypeName", name |-> name, kids |-> <<>>]
ArrayTypeNameNode(elem) == [kind |-> "ArrayTypeName", kids |-> <<elem>>]
FieldDeclNode(vartype, name) ==
    [kind |-> "FieldDecl", name |-> name, kids |-> <<vartype>>]
ParameterNode(vartype, name) ==
    [kind |-> "Parameter", name |-> name, kids |-> <<vartype>>]
StructDeclNode(name, fielddecls) ==
    [kind |-> "StructDecl", name |-> name, kids |-> fielddecls]
FunctionDeclNode(ret, name, parameters, body) ==
    [kind |-> "FunctionDecl", name |-> name, nparams |-> Len(parameters),
     kids |-> <<ret>> \o parameters \o <<body>>]

BlockNode(statements) == [kind |-> "Block", kids |-> statements]
VarDefNode(vartype, name, expr) ==
    [kind |-> "VarDef", name |-> name, kids |-> <<vartype, expr>>]
VarDefStatementNode(vardef) == [kind |-> "VarDefStatement", kids |-> <<vardef>>]
IfNode(test, then_block, else_block) ==
    [kind |-> "If", kids |-> <<test, then_block, else_block>>]
WhileNode(test, body) == [kind |-> "While", kids |-> <<test, body>>]
ForNode(init, test, update, body) ==
    [kind |-> "For", kids |-> <<init, test, update, body>>]
BreakNode == [kind |-> "Break", kids |-> <<>>]
ContinueNode == [kind |-> "Continue", kids |-> <<>>]
ReturnNode(expr) == [kind |-> "Return", kids |-> <<expr>>]
AssertNode(test, message) == [kind |-> "Assert", kids |-> <<test, message>>]
ExpressionStatementNode(expr) ==
    [kind |-> "ExpressionStatement", kids |-> <<expr>>]

\* text is the sequence of characters of the literal
IntegerNode(text) == [kind |-> "Integer", text |-> text, kids |-> <<>>]
DoubleNode(text) == [kind |-> "Double", text |-> text, kids |-> <<>>]
StringNode(text) == [kind |-> "String", text |-> text, kids |-> <<>>]
BooleanNode(text) == [kind |-> "Boolean", text |-> text, kids |-> <<>>]
NullNode == [kind |-> "Null", text |-> <<"n", "u", "l", "l">>, kids |-> <<>>]
NameExpressionNode(name) ==
    [kind |-> "NameExpression", name |-> name, kids |-> <<>>]
CallNode(name, args) == [kind |-> "Call", name |-> name, kids |-> args]
NewNode(typename, args) == [kind |-> "New", kids |-> <<typename>> \o args]
FieldAccessNode(receiver, field) ==
    [kind |-> "FieldAccess", field |-> field, kids |-> <<receiver>>]
ArrayIndexNode(receiver, index) ==
    [kind |-> "ArrayIndex", kids |-> <<receiver, index>>]
\* kind is the class: PrefixPlus, PrefixMinus, Not, PrefixIncr, PrefixDecr, ID
UnaryPrefixNode(kind, expr) == [kind |-> kind, kids |-> <<expr>>]
\* kind is the class: Plus, Minus, ..., Assign, Push, Pop; kids are lhs, rhs
BinaryOpNode(kind, lhs, rhs) == [kind |-> kind, kids |-> <<lhs, rhs>>]

LiteralKinds == {"Integer", "Double", "String", "Boolean", "Null"}
UnaryKinds == {"PrefixPlus", "PrefixMinus", "Not", "PrefixIncr", "PrefixDecr", "ID"}
BinaryArithKinds == {"Plus", "Minus", "Times", "Divide", "Modulo"}
BinaryOpKinds ==
    BinaryArithKinds \cup {"LogicalOr", "LogicalAnd", "Less", "LessEqual",
                           "Greater", "GreaterEqual", "Equal", "NotEqual",
                           "Assign", "Push", "Pop"}
ExpressionKinds ==
    LiteralKinds \cup UnaryKinds \cup BinaryOpKinds \cup
    {"Expression", "NameExpression", "Call", "New", "FieldAccess", "ArrayIndex"}

\* the classes that declare a type attribute, and a func attribute
HasTypeAttr(n) ==
    n.kind \in ExpressionKinds \cup {"TypeName", "ArrayTypeName", "StructDecl"}
HasFuncAttr(n) == n.kind \in {"FunctionDecl", "Call"}

Kid(p, i) == Append(p, i)

RECURSIVE NodeAt(_, _)
NodeAt(n, p) == IF p = <<>> THEN n ELSE NodeAt(n.kids[Head(p)], Tail(p))

RECURSIVE PathsOf(_, _)
PathsOf(n, p) ==
    {p} \cup UNION {PathsOf(n.kids[i], Kid(p, i)) : i \in DOMAIN n.kids}

\* the node object at path p: a missing return expression is an
\* ExpressionNode once ReturnNode.resolve_types has created it
Node(s, p) ==
    LET n == NodeAt(s.prog, p)
    IN IF n.kind = "None" /\ p \in s.synth THEN ExpressionNode ELSE n

is_literal(n) == n.kind \in LiteralKinds
is_lvalue(n) == n.kind = "FieldAccess"

RECURSIVE ExpressionNode_get_type(_, _)
ExpressionNode_get_type(s, p) ==
    IF Node(s, p).kind \in UnaryKinds
    THEN ExpressionNode_get_type(s, Kid(p, 1))
    ELSE s.ntype[p]

Ok(s) == s.raised = ""

----------------------------------------------------------------------------
(* Method calls.  Visit is the call node.pass(ctx) on the object at path p *)
(* (a call on None raises); ast_map is ucbase.ast_map over the children of *)
(* the node at p from child i on, which skips children that are not nodes. *)

RECURSIVE Visit(_, _, _), ast_map(_, _, _, _)

Phase(s) == s.ctx.phase
NumKids(s, p) == Len(Node(s, p).kids)

\* explicit calls node.kids[i].pass(ctx) for i = lo..hi
RECURSIVE VisitKids(_, _, _, _, _)
VisitKids(pass, s, p, lo, hi) ==
    IF ~Ok(s) \/ lo > hi THEN s
    ELSE VisitKids(pass, Visit(pass, s, Kid(p, lo)), p, lo + 1, hi)

\* explicit calls on the children i = lo..hi that are not literals
RECURSIVE VisitNonLiterals(_, _, _, _, _)
VisitNonLiterals(pass, s, p, lo, hi) ==
    IF ~Ok(s) \/ lo > hi THEN s
    ELSE VisitNonLiterals(pass,
                          IF is_literal(Node(s, Kid(p, lo))) THEN s
                          ELSE Visit(pass, s, Kid(p, lo)),
                          p, lo + 1, hi)

----------------------------------------------------------------------------
(* Type objects: lookup_field and check_args (uctypes.py) *)

\* FieldDeclNode defines no get_type method
FieldDeclNode_get_type(s) ==
    raise(s, "AttributeError: 'FieldDeclNode' object has no attribute 'get_type'")

Type_lookup_field(s, phase, position, t, name) ==
    lookup_type(error(s, phase, position, "type has no field",
                      [NoInfo EXCEPT !.name = name, !.got = t]),
                phase, position, "int", TRUE)

ArrayType_lookup_field(s, phase, position, t, name) ==
    IF name = "length"
    THEN lookup_type(s, phase, position, "int", TRUE)
    ELSE lookup_type(error(s, phase, position, "unknown field of ArrayType",
                           [NoInfo EXCEPT !.name = name, !.got = t]),
                     phase, position, "int", TRUE)

\* self.fields is decl.fielddecls
UserType_fields(s, t) == NodeAt(s.prog, t.decl).kids

UserType_lookup_field(s, phase, position, t, name) ==
    IF \E i \in DOMAIN UserType_fields(s, t) : UserType_fields(s, t)[i].name = name
    THEN FieldDeclNode_get_type(s)
    ELSE lookup_type(error(s, phase, position, "field not in type",
                           [NoInfo EXCEPT !.name = name, !.got = t]),
                     phase, position, "int", TRUE)

lookup_field(s, phase, position, t, name) ==
    CASE t.k = "None" ->
           raise(s, "AttributeError: 'NoneType' object has no attribute 'lookup_field'")
      [] IsArrayType(t) -> ArrayType_lookup_field(s, phase, position, t, name)
      [] IsUserType(t) -> UserType_lookup_field(s, phase, position, t, name)
      [] OTHER -> Type_lookup_field(s, phase, position, t, name)

\* args are the paths of the argument nodes; the loop returns False at the
\* first argument whose type is not the element type, and the method
\* returns None when the loop ends
RECURSIVE ArrayType_check_args(_, _, _, _, _, _)
ArrayType_check_args(s, phase, position, t, args, i) ==
    IF i > Len(args) THEN [s EXCEPT !.retv = "None"]
    ELSE IF ExpressionNode_get_type(s, args[i]) # elem_type(t)
         THEN [error(s, phase, position, "array cannot be initialized with",
                     [NoInfo EXCEPT !.exp = elem_type(t),
                                    !.got = s.ntype[args[i]]])
               EXCEPT !.retv = "False"]
         ELSE ArrayType_check_args(s, phase, position, t, args, i + 1)

UserType_check_args(s, phase, position, t, args) ==
    IF Len(args) = 0 THEN [s EXCEPT !.retv = "True"]
    ELSE IF Len(UserType_fields(s, t)) # Len(args)
         THEN [error(s, phase, position, "type expected arguments",
                     [NoInfo EXCEPT !.name = t.name, !.got = t])
               EXCEPT !.retv = "False"]
         ELSE FieldDeclNode_get_type(s)

Type_check_args(s, phase, position, t, args) ==
    CASE t.k = "uncomputed" -> [s EXCEPT !.retv = "True"]
      [] t.k = "None" ->
           raise(s, "AttributeError: 'NoneType' object has no attribute 'check_args'")
      [] IsArrayType(t) -> ArrayType_check_args(s, phase, position, t, args, 1)
      [] IsUserType(t) -> UserType_check_args(s, phase, position, t, args)
      [] OTHER ->
           raise(s, "AttributeError: 'PrimitiveType' object has no attribute 'check_args'")

----------------------------------------------------------------------------
(* Function.check_args (ucfunctions.py) *)

\* the loop of Function.check_args going on after an error
RECURSIVE Function_check_params_every_position(_, _, _, _, _, _)
Function_check_params_every_position(s, phase, position, f, args, index) ==
    IF index > Len(param_types(s, f))
    THEN [s EXCEPT !.retv = IF s.errs = <<>> THEN "True" ELSE "False"]
    ELSE LET param == param_types(s, f)[index]
             argtype == s.ntype[args[index]]
         IN Function_check_params_every_position(
                IF param # argtype /\ ~is_convertible_to(argtype, param)
                THEN error(s, phase, position, "type not compatible with parameter",
                           [NoInfo EXCEPT !.name = f.name, !.exp = param,
                                          !.got = argtype, !.index = index])
                ELSE s,
                phase, position, f, args, index + 1)

RECURSIVE Function_check_params(_, _, _, _, _, _)
Function_check_params(s, phase, position, f, args, index) ==
    IF index > Len(param_types(s, f)) THEN [s EXCEPT !.retv = "True"]
    ELSE LET param == param_types(s, f)[index]
             argtype == s.ntype[args[index]]
         IN IF param # argtype /\ ~is_convertible_to(argtype, param)
            THEN [error(s, phase, position, "type not compatible with parameter",
                        [NoInfo EXCEPT !.name = f.name, !.exp = param,
                                       !.got = argtype, !.index = index])
                  EXCEPT !.retv = "False"]
            ELSE Function_check_params(s, phase, position, f, args, index + 1)

Function_check_args(s, phase, position, f, args) ==
    IF Len(param_types(s, f)) # Len(args)
    THEN [error(s, phase, position, "function expected arguments",
                [NoInfo EXCEPT !.name = f.name])
          EXCEPT !.retv = "False"]
    ELSE Function_check_params(s, phase, position, f, args, 1)

----------------------------------------------------------------------------
(* Declarations and type names (ucbase.py) *)

TypeNameNode_resolve_types(s, p, n) ==
    LET s1 == lookup_type(s, Phase(s), p, n.name, TRUE)
    IN [s1 EXCEPT !.ntype[p] = s1.rett]

ArrayTypeNameNode_resolve_types(s, p, n) ==
    LET s1 == IF s.ntype[Kid(p, 1)] = UncomputedType
              THEN Visit("resolve_types", s, Kid(p, 1))
              ELSE s
    IN IF ~Ok(s1) THEN s1
       ELSE [s1 EXCEPT !.ntype[p] = array_type(s1.ntype[Kid(p, 1)])]

\* self.vartype.name exists only when vartype is a TypeNameNode
FieldDeclNode_resolve_types(s, p, n) ==
    IF n.kids[1].kind # "TypeName"
    THEN raise(s, "AttributeError: 'ArrayTypeNameNode' object has no attribute 'name'")
    ELSE LET s1 == lookup_type(s, Phase(s), p, n.kids[1].name, TRUE)
         IN [s1 EXCEPT !.ntype[Kid(p, 1)] = s1.rett]

ParameterNode_resolve_types(s, p, n) == Visit("resolve_types", s, Kid(p, 1))

StructDeclNode_find_decls(s, p, n) ==
    LET s1 == add_type(s, Phase(s), p, n.name, p)
    IN [s1 EXCEPT !.ntype[p] = s1.rett]

StructDeclNode_resolve_types(s, p, n) ==
    VisitKids("resolve_types", s, p, 1, Len(n.kids))

\* the struct's environment is created and the parent environment restored;
\* the field declarations are not entered into it
StructDeclNode_check_names(s, p, n) ==
    LET parent == s.ctx.local_env
        s1 == VarEnv(s, parent, TRUE)
    IN [s1 EXCEPT !.nenv[p] = Len(s1.envs), !.ctx.local_env = parent]

FunctionDeclNode_find_decls(s, p, n) ==
    LET s1 == add_function(s, Phase(s), p, n.name, p)
    IN [s1 EXCEPT !.nfunc[p] = s1.retf]

\* parameters[i] is child 1 + i, its vartype is that child's first child
RECURSIVE FunctionDeclNode_resolve_params(_, _, _, _)
FunctionDeclNode_resolve_params(s, p, n, i) ==
    IF ~Ok(s) \/ i > n.nparams THEN s
    ELSE LET vt == Kid(Kid(p, 1 + i), 1)
             s1 == Visit("resolve_types", s, vt)
         IN IF ~Ok(s1) THEN s1
            ELSE FunctionDeclNode_resolve_params(
                     [s1 EXCEPT !.fsig[s1.nfunc[p]].params =
                                    Append(@, s1.ntype[vt])],
                     p, n, i + 1)

FunctionDeclNode_resolve_types(s, p, n) ==
    LET s1 == Visit("resolve_types", s, Kid(p, 1))
        s2 == IF ~Ok(s1) THEN s1
              ELSE [s1 EXCEPT !.fsig[s1.nfunc[p]].rettype = s1.ntype[Kid(p, 1)]]
        s3 == FunctionDeclNode_resolve_params(s2, p, n, 1)
    IN Visit("resolve_types", s3, Kid(p, n.nparams + 2))

RECURSIVE FunctionDeclNode_add_params(_, _, _, _, _)
FunctionDeclNode_add_params(s, p, n, e, i) ==
    IF i > n.nparams THEN s
    ELSE FunctionDeclNode_add_params(
             add_variable(s, Phase(s), p, e, n.kids[1 + i].name,
                          s.ntype[Kid(Kid(p, 1 + i), 1)]),
             p, n, e, i + 1)

FunctionDeclNode_check_names(s, p, n) ==
    LET parent == s.ctx.local_env
        s1 == VarEnv(s, parent, TRUE)
        env == Len(s1.envs)
        s2 == [s1 EXCEPT !.nenv[p] = env, !.ctx.local_env = env]
        s3 == FunctionDeclNode_add_params(s2, p, n, env, 1)
        s4 == Visit("check_names", s3, Kid(p, n.nparams + 2))
    IN IF ~Ok(s4) THEN s4 ELSE [s4 EXCEPT !.ctx.local_env = parent]

----------------------------------------------------------------------------
(* Statements (ucstmt.py) *)

BlockNode_resolve_types(s, p, n) ==
    VisitKids("resolve_types", s, p, 1, Len(n.kids))

BlockNode_check_names(s, p, n) ==
    LET parent == s.ctx.local_env
        s1 == VarEnv(s, parent, TRUE)
        env == Len(s1.envs)
        s2 == [s1 EXCEPT !.nenv[p] = env, !.ctx.local_env = env]
        s3 == VisitKids("check_names", s2, p, 1, Len(n.kids))
    IN IF ~Ok(s3) THEN s3 ELSE [s3 EXCEPT !.ctx.local_env = parent]

BlockNode_basic_control(s, p, n) ==
    VisitKids("basic_control", s, p, 1, Len(n.kids))

BlockNode_type_check(s, p, n) ==
    VisitKids("type_check", [s EXCEPT !.ctx.local_env = s.nenv[p]],
              p, 1, Len(n.kids))

\* VarDefNode.check_names that binds the variable before it checks the
\* initializer
VarDefNode_check_names_bind_first(s, p, n) ==
    LET s1 == IF s.ntype[Kid(p, 1)] = UncomputedType
              THEN Visit("resolve_types", s, Kid(p, 1))
              ELSE s
        s2 == IF ~Ok(s1) THEN s1
              ELSE IF s1.ctx.local_env = 0
                   THEN raise(s1, "AttributeError: 'NoneType' object has no attribute 'add_variable'")
                   ELSE add_variable(s1, Phase(s1), p, s1.ctx.local_env, n.name,
                                     s1.ntype[Kid(p, 1)])
    IN IF ~Ok(s2) THEN s2 ELSE Visit("check_names", s2, Kid(p, 2))

VarDefNode_check_names(s, p, n) ==
    LET s1 == IF s.ntype[Kid(p, 1)] = UncomputedType
              THEN Visit("resolve_types", s, Kid(p, 1))
              ELSE s
        s2 == Visit("check_names", s1, Kid(p, 2))
    IN IF ~Ok(s2) THEN s2
       ELSE IF s2.ctx.local_env = 0
            THEN raise(s2, "AttributeError: 'NoneType' object has no attribute 'add_variable'")
            ELSE add_variable(s2, Phase(s2), p, s2.ctx.local_env, n.name,
                              s2.ntype[Kid(p, 1)])

VarDefStatementNode_check_names(s, p, n) == Visit("check_names", s, Kid(p, 1))

IfNode_check_names(s, p, n) ==
    LET s1 == IF is_literal(Node(s, Kid(p, 1))) THEN s
              ELSE Visit("check_names", s, Kid(p, 1))
    IN VisitKids("check_names", s1, p, 2, 3)

WhileNode_check_names(s, p, n) == VisitKids("check_names", s, p, 1, 2)

WhileNode_basic_control(s, p, n) ==
    LET s1 == Visit("basic_control", [s EXCEPT !.ctx.in_loop = "True"], Kid(p, 2))
    IN IF ~Ok(s1) THEN s1 ELSE [s1 EXCEPT !.ctx.in_loop = "False"]

\* init, test and update are called without a check for None; the body is
\* not visited
ForNode_check_names(s, p, n) ==
    LET parent == s.ctx.local_env
        s1 == VarEnv(s, parent, TRUE)
        env == Len(s1.envs)
        s2 == [s1 EXCEPT !.nenv[p] = env, !.ctx.local_env = env]
        s3 == VisitKids("check_names", s2, p, 1, 3)
    IN IF ~Ok(s3) THEN s3 ELSE [s3 EXCEPT !.ctx.local_env = parent]

ForNode_basic_control(s, p, n) ==
    LET s1 == Visit("basic_control", [s EXCEPT !.ctx.in_loop = "True"], Kid(p, 4))
    IN IF ~Ok(s1) THEN s1 ELSE [s1 EXCEPT !.ctx.in_loop = "False"]

\* ctx.in_loop is "absent" while the key is not in the context
BreakNode_basic_control(s, p, n) ==
    LET s1 == IF s.ctx.in_loop # "absent" /\ s.ctx.in_loop # "True"
              THEN error(s, Phase(s), p, "break only allowed within a loop", NoInfo)
              ELSE s
    IN error(s1, Phase(s1), p, "break only allowed within a loop", NoInfo)

ContinueNode_basic_control(s, p, n) ==
    LET s1 == IF s.ctx.in_loop # "absent" /\ s.ctx.in_loop # "True"
              THEN error(s, Phase(s), p, "continue only allowed within a loop", NoInfo)
              ELSE s
    IN error(s1, Phase(s1), p, "continue only allowed within a loop", NoInfo)

ReturnNode_resolve_types(s, p, n) ==
    LET s1 == IF Node(s, Kid(p, 1)).kind = "None"
              THEN LET t == lookup_type(s, Phase(s), p, "void", TRUE)
                   IN [t EXCEPT !.synth = @ \cup {Kid(p, 1)},
                                !.ntype[Kid(p, 1)] = t.rett]
              ELSE s
    IN Visit("resolve_types", s1, Kid(p, 1))

ExpressionStatementNode_resolve_types(s, p, n) ==
    Visit("resolve_types", s, Kid(p, 1))

----------------------------------------------------------------------------
(* Expressions (ucexpr.py) *)

LiteralNode_set_type(s, p, name) ==
    LET s1 == lookup_type(s, Phase(s), p, name, TRUE)
    IN [s1 EXCEPT !.ntype[p] = s1.rett]

IntegerNode_resolve_types(s, p, n) ==
    IF n.text[Len(n.text)] = "L" THEN LiteralNode_set_type(s, p, "long")
    ELSE IF \E i \in DOMAIN n.text : n.text[i] = "."
         THEN LiteralNode_set_type(s, p, "double")
         ELSE LiteralNode_set_type(s, p, "int")

DoubleNode_resolve_types(s, p, n) == LiteralNode_set_type(s, p, "double")
StringNode_resolve_types(s, p, n) == LiteralNode_set_type(s, p, "string")
BooleanNode_resolve_types(s, p, n) == LiteralNode_set_type(s, p, "boolean")
NullNode_resolve_types(s, p, n) == LiteralNode_set_type(s, p, "null")

NameExpressionNode_check_names(s, p, n) ==
    IF s.ctx.local_env = 0
    THEN raise(s, "AttributeError: 'NoneType' object has no attribute 'get_type'")
    ELSE LET s1 == get_type(s, Phase(s), p, s.ctx.local_env, n.name)
         IN IF ~Ok(s1) THEN s1 ELSE [s1 EXCEPT !.ntype[p] = s1.rett]

\* the paths of the children lo..hi of the node at p
KidPaths(p, lo, hi) == [i \in 1..(hi - lo + 1) |-> Kid(p, lo + i - 1)]

CallNode_resolve_types(s, p, n) ==
    VisitKids("resolve_types", s, p, 1, Len(n.kids))

CallNode_check_names(s, p, n) ==
    VisitNonLiterals("check_names", s, p, 1, Len(n.kids))

CallNode_resolve_calls(s, p, n) ==
    LET s1 == VisitKids("resolve_calls", s, p, 1, Len(n.kids))
        s2 == lookup_function(s1, Phase(s1), p, n.name, TRUE)
    IN IF ~Ok(s1) THEN s1 ELSE [s2 EXCEPT !.nfunc[p] = s2.retf]

CallNode_type_check(s, p, n) ==
    LET s1 == [s EXCEPT !.ntype[p] = rettype(s, s.nfunc[p])]
        s2 == CallNode_resolve_types(s1, p, n)
        s3 == IF ~Ok(s2) THEN s2 ELSE CallNode_check_names(s2, p, n)
        s4 == VisitKids("type_check", s3, p, 1, Len(n.kids))
    IN IF ~Ok(s4) THEN s4
       ELSE Function_check_args(s4, Phase(s4), p, s4.nfunc[p],
                                KidPaths(p, 1, Len(n.kids)))

NewNode_resolve_types(s, p, n) ==
    LET s1 == Visit("resolve_types", s, Kid(p, 1))
        s2 == IF ~Ok(s1) THEN s1
              ELSE [s1 EXCEPT !.ntype[p] = s1.ntype[Kid(p, 1)]]
    IN VisitKids("resolve_types", s2, p, 2, Len(n.kids))

\* the arguments are not type checked before check_args
NewNode_type_check(s, p, n) ==
    Type_check_args(s, Phase(s), p, s.ntype[p], KidPaths(p, 2, Len(n.kids)))

\* field is a NameNode: its resolve_types and check_names do nothing
FieldAccessNode_resolve_types(s, p, n) == Visit("resolve_types", s, Kid(p, 1))

FieldAccessNode_check_names(s, p, n) == Visit("check_names", s, Kid(p, 1))

FieldAccessNode_type_check(s, p, n) ==
    LET s1 == FieldAccessNode_resolve_types(s, p, n)
        s2 == IF ~Ok(s1) THEN s1 ELSE FieldAccessNode_check_names(s1, p, n)
        s3 == lookup_field(s2, Phase(s2), p, s2.ntype[Kid(p, 1)], n.field)
    IN IF ~Ok(s2) THEN s2
       ELSE IF ~Ok(s3) THEN s3 ELSE [s3 EXCEPT !.ntype[p] = s3.rett]

ArrayIndexNode_resolve_types(s, p, n) == VisitKids("resolve_types", s, p, 1, 2)

ArrayIndexNode_check_names(s, p, n) == VisitKids("check_names", s, p, 1, 2)

ArrayIndexNode_type_check(s, p, n) ==
    LET s1 == ArrayIndexNode_resolve_types(s, p, n)
        s2 == IF ~Ok(s1) THEN s1 ELSE ArrayIndexNode_check_names(s1, p, n)
        recv == s2.ntype[Kid(p, 1)]
        s3 == [s2 EXCEPT !.ntype[p] = recv]
    IN IF ~Ok(s2) THEN s2
       ELSE IF ~has_elem_type(recv)
            THEN error(s3, Phase(s3), p, "Cannot index into non-array.", NoInfo)
            ELSE LET s4 == [s3 EXCEPT !.ntype[p] = elem_type(recv)]
                 IN IF ~is_integral(s4.ntype[Kid(p, 2)])
                    THEN error(s4, Phase(s4), p,
                               "Cannot index non-integer into array.",
                               [NoInfo EXCEPT !.got = s4.ntype[Kid(p, 2)]])
                    ELSE s4

UnaryPrefixNode_resolve_types(s, p, n) == Visit("resolve_types", s, Kid(p, 1))

BinaryOpNode_resolve_types(s, p, n) ==
    LET s1 == lookup_type(s, Phase(s), p, "boolean", TRUE)
    IN VisitKids("resolve_types", [s1 EXCEPT !.ntype[p] = s1.rett], p, 1, 2)

BinaryOpNode_check_names(s, p, n) ==
    VisitNonLiterals("check_names", s, p, 1, 2)

\* rhs first, then lhs
BinaryOpNode_type_check(s, p, n) ==
    Visit("type_check", Visit("type_check", s, Kid(p, 2)), Kid(p, 1))

BinaryOpNode_type_error(exp, got) == [NoInfo EXCEPT !.exp = exp, !.got = got]

\* BinaryArithNode.type_check that stops at the first operand in error
BinaryArithNode_type_check_first_error(s, p, n) ==
    LET s1 == BinaryOpNode_type_check(s, p, n)
        lhs == s1.ntype[Kid(p, 1)]
        rhs == s1.ntype[Kid(p, 2)]
        s2 == IF ~is_numeric(lhs)
              THEN error(s1, Phase(s1), Kid(p, 1),
                         "binary operator expects int, long, or double",
                         [NoInfo EXCEPT !.got = lhs])
              ELSE IF ~is_numeric(rhs)
                   THEN error(s1, Phase(s1), Kid(p, 2),
                              "binary operator expects int, long, or double",
                              [NoInfo EXCEPT !.got = rhs])
                   ELSE s1
    IN IF ~Ok(s1) THEN s1 ELSE [s2 EXCEPT !.ntype[p] = lhs]

BinaryArithNode_type_check(s, p, n) ==
    LET s1 == BinaryOpNode_type_check(s, p, n)
        lhs == s1.ntype[Kid(p, 1)]
        rhs == s1.ntype[Kid(p, 2)]
        s2 == IF ~is_numeric(lhs)
              THEN error(s1, Phase(s1), Kid(p, 1),
                         "binary operator expects int, long, or double",
                         [NoInfo EXCEPT !.got = lhs])
              ELSE s1
        s3 == IF ~is_numeric(rhs)
              THEN error(s2, Phase(s2), Kid(p, 2),
                         "binary operator expects int, long, or double",
                         [NoInfo EXCEPT !.got = rhs])
              ELSE s2
    IN IF ~Ok(s1) THEN s1 ELSE [s3 EXCEPT !.ntype[p] = lhs]

\* PlusNode.type_check without the string case
PlusNode_type_check_no_concatenation(s, p, n) ==
    LET s1 == Visit("type_check", Visit("type_check", s, Kid(p, 2)), Kid(p, 1))
        s2 == IF Ok(s1) /\ is_numeric(s1.ntype[Kid(p, 1)])
              THEN BinaryArithNode_type_check(s1, p, n)
              ELSE s1
        lhs == s2.ntype[Kid(p, 1)]
        rhs == s2.ntype[Kid(p, 2)]
    IN IF ~Ok(s2) THEN s2
       ELSE IF lhs # rhs
            THEN error(s2, Phase(s2), p, "binary operator expects",
                       BinaryOpNode_type_error(lhs, rhs))
            ELSE [s2 EXCEPT !.ntype[p] = lhs]

PlusNode_type_check(s, p, n) ==
    LET s1 == Visit("type_check", Visit("type_check", s, Kid(p, 2)), Kid(p, 1))
        s2 == IF Ok(s1) /\ is_numeric(s1.ntype[Kid(p, 1)])
              THEN BinaryArithNode_type_check(s1, p, n)
              ELSE s1
        lhs == s2.ntype[Kid(p, 1)]
        rhs == s2.ntype[Kid(p, 2)]
    IN IF ~Ok(s2) THEN s2
       ELSE IF TypeStr(lhs) = <<"string", 0>>
            THEN [s2 EXCEPT !.ntype[p] = lhs]
            ELSE IF lhs # rhs
                 THEN error(s2, Phase(s2), p, "binary operator expects",
                            BinaryOpNode_type_error(lhs, rhs))
                 ELSE [s2 EXCEPT !.ntype[p] = lhs]

AssignNode_type_check(s, p, n) ==
    LET s1 == BinaryOpNode_type_check(s, p, n)
    IN IF ~Ok(s1) THEN s1
       ELSE IF ~is_lvalue(Node(s1, Kid(p, 1)))
            THEN error(s1, Phase(s1), p,
                       "assignment operator expects l-value on left-hand side",
                       [NoInfo EXCEPT !.got = s1.ntype[Kid(p, 1)]])
            ELSE [s1 EXCEPT !.ntype[p] = s1.ntype[Kid(p, 1)]]

----------------------------------------------------------------------------
(* ASTNode: the default of every pass maps it over the children; validate  *)
(* is not overridden by any class.                                         *)

ASTNode_default(pass, s, p, n) == ast_map(pass, s, p, 1)

\* validate that leaves the node on ctx['trace']
ASTNode_validate_no_pop(s, p, n) ==
    LET s1 == [s EXCEPT !.ctx.trace = Append(@, p)]
        s2 == IF HasTypeAttr(n) /\ s1.ntype[p] = UncomputedType
              THEN error(s1, Phase(s1), p, "uncomputed type",
                         [NoInfo EXCEPT !.trace = s1.ctx.trace])
              ELSE s1
        s3 == IF HasFuncAttr(n) /\ s2.nfunc[p] = UncomputedFunction
              THEN error(s2, Phase(s2), p, "uncomputed function",
                         [NoInfo EXCEPT !.trace = s2.ctx.trace])
              ELSE s2
    IN ast_map("validate", s3, p, 1)

ASTNode_validate(s, p, n) ==
    LET s1 == [s EXCEPT !.ctx.trace = Append(@, p)]
        s2 == IF HasTypeAttr(n) /\ s1.ntype[p] = UncomputedType
              THEN error(s1, Phase(s1), p, "uncomputed type",
                         [NoInfo EXCEPT !.trace = s1.ctx.trace])
              ELSE s1
        s3 == IF HasFuncAttr(n) /\ s2.nfunc[p] = UncomputedFunction
              THEN error(s2, Phase(s2), p, "uncomputed function",
                         [NoInfo EXCEPT !.trace = s2.ctx.trace])
              ELSE s2
        s4 == ast_map("validate", s3, p, 1)
    IN IF ~Ok(s4) THEN s4
       ELSE [s4 EXCEPT !.ctx.trace = SubSeq(@, 1, Len(@) - 1)]

find_decls(s, p, n) ==
    CASE n.kind = "StructDecl" -> StructDeclNode_find_decls(s, p, n)
      [] n.kind = "FunctionDecl" -> FunctionDeclNode_find_decls(s, p, n)
      [] OTHER -> ASTNode_default("find_decls", s, p, n)

resolve_types(s, p, n) ==
    CASE n.kind = "TypeName" -> TypeNameNode_resolve_types(s, p, n)
      [] n.kind = "ArrayTypeName" -> ArrayTypeNameNode_resolve_types(s, p, n)
      [] n.kind = "FieldDecl" -> FieldDeclNode_resolve_types(s, p, n)
      [] n.kind = "Parameter" -> ParameterNode_resolve_types(s, p, n)
      [] n.kind = "StructDecl" -> StructDeclNode_resolve_types(s, p, n)
      [] n.kind = "FunctionDecl" -> FunctionDeclNode_resolve_types(s, p, n)
      [] n.kind = "Block" -> BlockNode_resolve_types(s, p, n)
      [] n.kind = "Return" -> ReturnNode_resolve_types(s, p, n)
      [] n.kind = "ExpressionStatement" -> ExpressionStatementNode_resolve_types(s, p, n)
      [] n.kind = "Integer" -> IntegerNode_resolve_types(s, p, n)
      [] n.kind = "Double" -> DoubleNode_resolve_types(s, p, n)
      [] n.kind = "String" -> StringNode_resolve_types(s, p, n)
      [] n.kind = "Boolean" -> BooleanNode_resolve_types(s, p, n)
      [] n.kind = "Null" -> NullNode_resolve_types(s, p, n)
      [] n.kind = "Call" -> CallNode_resolve_types(s, p, n)
      [] n.kind = "New" -> NewNode_resolve_types(s, p, n)
      [] n.kind = "FieldAccess" -> FieldAccessNode_resolve_types(s, p, n)
      [] n.kind = "ArrayIndex" -> ArrayIndexNode_resolve_types(s, p, n)
      [] n.kind \in UnaryKinds -> UnaryPrefixNode_resolve_types(s, p, n)
      [] n.kind \in BinaryOpKinds -> BinaryOpNode_resolve_types(s, p, n)
      [] OTHER -> ASTNode_default("resolve_types", s, p, n)

resolve_calls(s, p, n) ==
    CASE n.kind = "Call" -> CallNode_resolve_calls(s, p, n)
      [] OTHER -> ASTNode_default("resolve_calls", s, p, n)

check_names(s, p, n) ==
    CASE n.kind = "StructDecl" -> StructDeclNode_check_names(s, p, n)
      [] n.kind = "FunctionDecl" -> FunctionDeclNode_check_names(s, p, n)
      [] n.kind = "Block" -> BlockNode_check_names(s, p, n)
      [] n.kind = "VarDef" -> VarDefNode_check_names(s, p, n)
      [] n.kind = "VarDefStatement" -> VarDefStatementNode_check_names(s, p, n)
      [] n.kind = "If" -> IfNode_check_names(s, p, n)
      [] n.kind = "While" -> WhileNode_check_names(s, p, n)
      [] n.kind = "For" -> ForNode_check_names(s, p, n)
      [] n.kind = "NameExpression" -> NameExpressionNode_check_names(s, p, n)
      [] n.kind = "Call" -> CallNode_check_names(s, p, n)
      [] n.kind = "FieldAccess" -> FieldAccessNode_check_names(s, p, n)
      [] n.kind = "ArrayIndex" -> ArrayIndexNode_check_names(s, p, n)
      [] n.kind \in BinaryOpKinds -> BinaryOpNode_check_names(s, p, n)
      [] OTHER -> ASTNode_default("check_names", s, p, n)

basic_control(s, p, n) ==
    CASE n.kind = "Block" -> BlockNode_basic_control(s, p, n)
      [] n.kind = "While" -> WhileNode_basic_control(s, p, n)
      [] n.kind = "For" -> ForNode_basic_control(s, p, n)
      [] n.kind = "Break" -> BreakNode_basic_control(s, p, n)
      [] n.kind = "Continue" -> ContinueNode_basic_control(s, p, n)
      [] OTHER -> ASTNode_default("basic_control", s, p, n)

type_check(s, p, n) ==
    CASE n.kind = "Block" -> BlockNode_type_check(s, p, n)
      [] n.kind = "Call" -> CallNode_type_check(s, p, n)
      [] n.kind = "New" -> NewNode_type_check(s, p, n)
      [] n.kind = "FieldAccess" -> FieldAccessNode_type_check(s, p, n)
      [] n.kind = "ArrayIndex" -> ArrayIndexNode_type_check(s, p, n)
      [] n.kind = "Plus" -> PlusNode_type_check(s, p, n)
      [] n.kind = "Assign" -> AssignNode_type_check(s, p, n)
      [] n.kind \in BinaryArithKinds -> BinaryArithNode_type_check(s, p, n)
      [] n.kind \in BinaryOpKinds -> BinaryOpNode_type_check(s, p, n)
      [] OTHER -> ASTNode_default("type_check", s, p, n)

Visit(pass, s, p) ==
    IF ~Ok(s) THEN s
    ELSE LET n == Node(s, p)
         IN IF n.kind = "None"
            THEN raise(s, "AttributeError: 'NoneType' object has no attribute")
            ELSE CASE pass = "find_decls" -> find_decls(s, p, n)
                   [] pass = "resolve_types" -> resolve_types(s, p, n)
                   [] pass = "resolve_calls" -> resolve_calls(s, p, n)
                   [] pass = "check_names" -> check_names(s, p, n)
                   [] pass = "basic_control" -> basic_control(s, p, n)
                   [] pass = "type_check" -> type_check(s, p, n)
                   [] pass = "validate" -> ASTNode_validate(s, p, n)

ast_map(pass, s, p, i) ==
    IF ~Ok(s) \/ i > NumKids(s, p) THEN s
    ELSE ast_map(pass,
                 IF Node(s, Kid(p, i)).kind = "None" THEN s
                 ELSE Visit(pass, s, Kid(p, i)),
                 p, i + 1)

----------------------------------------------------------------------------
(* The analysis state as one record, and back into the variables *)

State ==
    [prog |-> prog, gtypes |-> gtypes, gfuncs |-> gfuncs, fsig |-> fsig,
     envs |-> envs, ntype |-> ntype, nfunc |-> nfunc, nenv |-> nenv,
     synth |-> synth, errs |-> errs, disabled |-> disabled,
     raised |-> raised, ctx |-> ctx,
     rett |-> NoneValue, retf |-> NoFunction, retv |-> "None"]

SetState(s) ==
    /\ gtypes' = s.gtypes
    /\ gfuncs' = s.gfuncs
    /\ fsig' = s.fsig
    /\ envs' = s.envs
    /\ ntype' = s.ntype
    /\ nfunc' = s.nfunc
    /\ nenv' = s.nenv
    /\ synth' = s.synth
    /\ errs' = s.errs
    /\ disabled' = s.disabled
    /\ raised' = s.raised
    /\ ctx' = s.ctx

\* the class attributes BlockNode.local_env and ForNode.local_env, both
\* VarEnv(None, None), are environments 1 and 2
DefaultBlockEnv == 1
DefaultForEnv == 2
ClassEnvs == << [parent |-> 0, genv |-> FALSE, vars |-> <<>>],
                [parent |-> 0, genv |-> FALSE, vars |-> <<>>] >>

\* GlobalEnv.__init__: the builtin types and functions
GlobalEnv_types == add_builtin_types
GlobalEnv_functions ==
    [name \in DOMAIN add_builtin_functions |-> PrimitiveFunction(name)]

NoCall == [op |-> "none", name |-> "", strict |-> FALSE, env |-> 0,
           pos |-> NoPath, type |-> NoneValue, other |-> NoneValue,
           func |-> NoFunction, args |-> <<>>, obj |-> 0, cached |-> 0,
           rett |-> NoneValue, retf |-> NoFunction, retv |-> "None",
           reto |-> 0]

----------------------------------------------------------------------------
(* The syntax trees under analysis: what the parser (ucparser.py) builds   *)
(* for small uC programs.                                                  *)

Lit(t) ==
    CASE t = "int" -> IntegerNode(<<"1">>)
      [] t = "long" -> IntegerNode(<<"1", "L">>)
      [] t = "double" -> DoubleNode(<<"1", ".", "5">>)
      [] t = "string" -> StringNode(<<"a">>)
      [] t = "boolean" -> BooleanNode(<<"true">>)
      [] t = "null" -> NullNode

Name(x) == NameExpressionNode(x)
VarDefStmt(t, x, e) == VarDefStatementNode(VarDefNode(TypeNameNode(t), x, e))
ExprStmt(e) == ExpressionStatementNode(e)
Main(params, stmts) ==
    FunctionDeclNode(TypeNameNode("void"), "main", params, BlockNode(stmts))

Wrappers == {"Block", "While", "For", "If"}

Wrap(w, stmts) ==
    CASE w = "Block" -> BlockNode(stmts)
      [] w = "While" -> WhileNode(Lit("boolean"), BlockNode(stmts))
      [] w = "For" -> ForNode(VarDefNode(TypeNameNode("int"), "i", Lit("int")),
                              BinaryOpNode("Less", Name("i"), Lit("int")),
                              UnaryPrefixNode("PrefixIncr", Name("i")),
                              BlockNode(stmts))
      [] w = "If" -> IfNode(Lit("boolean"), BlockNode(stmts), BlockNode(<<>>))

\* the statements stmts inside the wrappers ws, outermost first
RECURSIVE Nest(_, _)
Nest(ws, stmts) ==
    IF ws = <<>> THEN stmts ELSE <<Wrap(Head(ws), Nest(Tail(ws), stmts))>>

SeqsUpTo(S, k) == UNION {[1..j -> S] : j \in 0..k}
WrapSeqs == SeqsUpTo(Wrappers, MaxDepth)

\* break and continue, in and out of loops, also right after an inner loop
ControlPrograms ==
    {ProgramNode(<<Main(<<>>, Nest(ws, pre \o <<brk>>))>>) :
        ws \in WrapSeqs,
        pre \in {<<>>, <<Wrap("While", <<>>)>>, <<Wrap("For", <<>>)>>},
        brk \in {BreakNode, ContinueNode}}

\* a definition of x as a parameter or a variable of the enclosing scope
\* (or none, or of another name), then a definition and a use of x
ShadowPrograms ==
    {ProgramNode(<<Main(
         IF outer = "param" THEN <<ParameterNode(TypeNameNode(t1), "x")>> ELSE <<>>,
         (CASE outer = "vardef" -> <<VarDefStmt(t1, "x", Lit(t1))>>
            [] outer = "other" -> <<VarDefStmt(t1, "y", Lit(t1))>>
            [] OTHER -> <<>>)
         \o Nest(ws, <<VarDefStmt(t2, "x", Lit(t2)), ExprStmt(Name("x"))>>))>>) :
        outer \in {"param", "vardef", "other", "none"},
        t1 \in {"int", "long"}, t2 \in {"int", "long"}, ws \in WrapSeqs}

\* int g(int a) { }
DeclG == FunctionDeclNode(TypeNameNode("int"), "g",
                          <<ParameterNode(TypeNameNode("int"), "a")>>,
                          BlockNode(<<>>))

ArgLits == {Lit("int"), Lit("long"), Lit("string")}

\* calls of an undeclared, a declared and two builtin functions
CallPrograms ==
    {ProgramNode(<<DeclG, Main(<<>>, <<ExprStmt(CallNode(f, args))>>)>>) :
        f \in {"foo", "g", "length", "string_to_int"},
        args \in SeqsUpTo(ArgLits, MaxArgs)}

FieldLists ==
    {<<>>,
     <<FieldDeclNode(TypeNameNode("int"), "x")>>,
     <<FieldDeclNode(TypeNameNode("int"), "x"), FieldDeclNode(TypeNameNode("int"), "y")>>,
     <<FieldDeclNode(TypeNameNode("int"), "x"), FieldDeclNode(TypeNameNode("long"), "y")>>,
     <<FieldDeclNode(ArrayTypeNameNode(TypeNameNode("int")), "x")>>}

\* struct Point { fields }; Point p = new Point(args); p.field;
StructPrograms ==
    {ProgramNode(<<StructDeclNode("Point", fields),
                   Main(<<>>, <<VarDefStmt("Point", "p",
                                    NewNode(TypeNameNode("Point"), args))>>
                              \o access)>>) :
        fields \in FieldLists,
        args \in SeqsUpTo({Lit("int"), Lit("long")}, MaxArgs),
        access \in {<<>>, <<ExprStmt(FieldAccessNode(Name("p"), "x"))>>,
                    <<ExprStmt(FieldAccessNode(Name("p"), "z"))>>}}

\* declarations of one name twice, and of builtin names
DuplicatePrograms ==
    {ProgramNode(<<a, b, Main(<<>>, <<>>)>>) :
        a \in {StructDeclNode("A", <<>>), StructDeclNode("int", <<>>),
               FunctionDeclNode(TypeNameNode("void"), "f", <<>>, BlockNode(<<>>))},
        b \in {StructDeclNode("A", <<FieldDeclNode(TypeNameNode("int"), "x")>>),
               StructDeclNode("B", <<>>),
               FunctionDeclNode(TypeNameNode("int"), "f", <<>>, BlockNode(<<>>)),
               FunctionDeclNode(TypeNameNode("int"), "length", <<>>, BlockNode(<<>>))}}

\* T x = literal; then a unary prefix operation on x
UnaryPrograms ==
    {ProgramNode(<<Main(<<>>, <<VarDefStmt(t, "x", Lit(t)),
                               IF use = "statement"
                               THEN ExprStmt(UnaryPrefixNode(op, Name("x")))
                               ELSE VarDefStmt(t, "y", UnaryPrefixNode(op, Name("x")))>>)>>) :
        t \in {"int", "boolean"}, op \in UnaryKinds,
        use \in {"statement", "initializer"}}

\* for statements with init, test and update present or omitted
ForPrograms ==
    {ProgramNode(<<Main(<<>>, <<VarDefStmt("string", "s", Lit("string")),
                               ForNode(init, test, update, BlockNode(body)),
                               ExprStmt(Name("i"))>>)>>) :
        init \in {None, VarDefNode(TypeNameNode("int"), "i", Lit("int")),
                  Name("s")},
        test \in {None, BinaryOpNode("Less", Name("i"), Lit("int"))},
        update \in {None, UnaryPrefixNode("PrefixIncr", Name("i"))},
        body \in {<<>>, <<ExprStmt(Name("i"))>>,
                  <<ExprStmt(CallNode("println", <<Name("s")>>))>>}}

NewIntArray(args) == NewNode(ArrayTypeNameNode(TypeNameNode("int")), args)

\* right operands of every type, one that reports an error of its own
Operands ==
    {Lit(t) : t \in {"int", "long", "double", "boolean", "null", "string"}}
    \cup {Name("x"), Name("s"), CallNode("println", <<Name("s")>>),
          NewIntArray(<<>>),
          BinaryOpNode("Plus", Name("x"), Lit("boolean"))}

\* "a" + e, s + e, (s + 1) + e, and x + e for comparison
PlusStatements ==
    {ExprStmt(BinaryOpNode("Plus", lhs, rhs)) :
        lhs \in {Lit("string"), Name("s"), Name("x"),
                 BinaryOpNode("Plus", Name("s"), Lit("int"))},
        rhs \in Operands}

\* e = 1 for left operands of every expression class
AssignStatements ==
    {ExprStmt(BinaryOpNode("Assign", lhs, Lit("int"))) :
        lhs \in {Name("x"), Lit("int"),
                 ArrayIndexNode(NewIntArray(<<Lit("int")>>), Lit("int")),
                 FieldAccessNode(NewIntArray(<<>>), "length"),
                 CallNode("length", <<Name("s")>>),
                 UnaryPrefixNode("PrefixMinus", Name("x")),
                 BinaryOpNode("Plus", Name("x"), Lit("int"))}}

\* e1[e2] for receivers with and without an element type and indices of
\* every expression class
IndexStatements ==
    {ExprStmt(ArrayIndexNode(receiver, index)) :
        receiver \in {NewIntArray(<<Lit("int")>>), Name("x"), Name("s"),
                      CallNode("length", <<Name("s")>>), Lit("null")},
        index \in {Lit("int"), Lit("long"), Lit("double"), Lit("string"),
                   Name("x"), BinaryOpNode("Plus", Name("x"), Lit("int")),
                   CallNode("length", <<Name("s")>>),
                   UnaryPrefixNode("PrefixMinus", Name("x"))}}

\* e1 op e2 for the arithmetic operators other than +
ArithStatements ==
    {ExprStmt(BinaryOpNode(op, lhs, rhs)) :
        op \in BinaryArithKinds \ {"Plus"},
        lhs \in {Lit("long"), Lit("double"), Lit("string"), Lit("boolean"),
                 Name("x"), CallNode("length", <<Name("s")>>)},
        rhs \in {Lit("long"), Lit("double"), Lit("string"), Lit("boolean"),
                 Name("x"), CallNode("length", <<Name("s")>>)}}

\* literals as statements and as operands; 1l and 1L are both accepted by
\* t_INTEGER
LiteralStatements ==
    {ExprStmt(e) : e \in {Lit(t) : t \in {"int", "long", "double", "string",
                                           "boolean", "null"}}
                         \cup {IntegerNode(<<"1", "l">>)}}
    \cup {ExprStmt(BinaryOpNode("Minus", IntegerNode(<<"1", "l">>), Lit("long"))),
          ExprStmt(BinaryOpNode("Plus", Lit("long"), Lit("double"))),
          ExprStmt(BinaryOpNode("Plus", Lit("long"), Lit("long"))),
          ExprStmt(CallNode("sqrt", <<Lit("double")>>))}

\* calls and new expressions whose arguments are names, calls and
\* arithmetic expressions, well typed or not
ArgumentStatements ==
    {ExprStmt(CallNode("println", <<arg>>)) :
        arg \in {Name("s"), Name("z"), CallNode("int_to_string", <<Name("z")>>),
                 BinaryOpNode("Plus", Name("s"), Lit("int")),
                 UnaryPrefixNode("PrefixMinus", Name("x"))}}
    \cup {ExprStmt(CallNode("sqrt", <<arg>>)) :
        arg \in {BinaryOpNode("Minus", Name("x"), Lit("int")),
                 BinaryOpNode("Minus", Name("x"), Lit("string")),
                 CallNode("sqrt", <<Lit("double")>>)}}
    \cup {ExprStmt(NewIntArray(<<arg>>)) :
        arg \in {Name("x"), CallNode("length", <<Name("s")>>),
                 BinaryOpNode("Minus", Name("x"), Lit("int")),
                 BinaryOpNode("Plus", Name("x"), Lit("int"))}}
    \cup {ExprStmt(BinaryOpNode("Plus",
                       BinaryOpNode("Minus", Name("x"), Lit("string")),
                       Lit("int"))),
          ExprStmt(BinaryOpNode("Plus", Name("z"), Lit("int"))),
          ExprStmt(FieldAccessNode(Name("z"), "length")),
          ExprStmt(ArrayIndexNode(Name("z"), Lit("int")))}

\* definitions whose initializer uses the name defined, and uses of a name
\* before and after its definition in a block
DefinitionStatements ==
    {VarDefStmt("int", "y", Name("y")),
     VarDefStmt("int", "y", BinaryOpNode("Plus", Name("y"), Lit("int"))),
     VarDefStmt("int", "y", Name("x")),
     BlockNode(<<ExprStmt(Name("y")), VarDefStmt("int", "y", Lit("int"))>>),
     BlockNode(<<VarDefStmt("int", "y", Lit("int")), ExprStmt(Name("y"))>>),
     BlockNode(<<ExprStmt(Name("y")), VarDefStmt("int", "y", Lit("int")),
                 ExprStmt(Name("y"))>>),
     BlockNode(<<ExprStmt(Name("y")),
                 VarDefStmt("int", "y",
                            BinaryOpNode("Plus", Name("y"), Lit("int"))),
                 ExprStmt(Name("y"))>>)}

\* int x = 1; string s = "a"; then one statement
Statements ==
    {ReturnNode(None), ReturnNode(Name("x")),
     AssertNode(Lit("boolean"), None),
     AssertNode(BinaryOpNode("Less", Name("x"), Lit("int")), Name("s")),
     ExprStmt(Name("x")), ExprStmt(Name("z")), ExprStmt(Lit("null")),
     ExprStmt(CallNode("length", <<Name("s")>>)),
     ExprStmt(CallNode("println", <<CallNode("int_to_string", <<Name("x")>>)>>)),
     ExprStmt(BinaryOpNode("Plus", Name("x"), Lit("int"))),
     ExprStmt(BinaryOpNode("Plus", Name("s"), Lit("int"))),
     ExprStmt(BinaryOpNode("Minus", Name("x"), Lit("long"))),
     ExprStmt(BinaryOpNode("Less", Name("x"), Lit("int"))),
     ExprStmt(BinaryOpNode("Assign", Name("x"), Lit("int"))),
     ExprStmt(NewNode(TypeNameNode("int"), <<>>)),
     ExprStmt(NewNode(TypeNameNode("Undeclared"), <<>>)),
     VarDefStmt("Undeclared", "u", Lit("int")),
     VarDefStatementNode(VarDefNode(ArrayTypeNameNode(TypeNameNode("int")), "a",
         NewNode(ArrayTypeNameNode(TypeNameNode("int")), <<Lit("int"), Lit("int")>>))),
     ExprStmt(ArrayIndexNode(
         NewNode(ArrayTypeNameNode(TypeNameNode("int")), <<Lit("int")>>),
         Lit("int"))),
     ExprStmt(FieldAccessNode(
         NewNode(ArrayTypeNameNode(TypeNameNode("int")), <<>>), "length"))}
    \cup PlusStatements \cup AssignStatements \cup IndexStatements
    \cup ArithStatements \cup LiteralStatements \cup ArgumentStatements
    \cup DefinitionStatements

StatementPrograms ==
    {ProgramNode(<<Main(<<>>, <<VarDefStmt("int", "x", Lit("int")),
                               VarDefStmt("string", "s", Lit("string")),
                               stmt>>)>>) : stmt \in Statements}
    \cup {ProgramNode(<<>>), ProgramNode(<<Main(<<>>, <<>>)>>)}

Programs ==
    ControlPrograms \cup ShadowPrograms \cup CallPrograms \cup StructPrograms
    \cup DuplicatePrograms \cup UnaryPrograms \cup ForPrograms
    \cup StatementPrograms

----------------------------------------------------------------------------
(* The driver: one GlobalEnv and one PhaseContext, the six passes in order *)
(* over the whole tree, then validate.                                     *)

PassNames == <<"find_decls", "resolve_types", "resolve_calls", "check_names",
               "basic_control", "type_check">>

Init ==
    /\ prog \in Programs
    /\ pc = 0
    /\ gtypes = GlobalEnv_types
    /\ gfuncs = GlobalEnv_functions
    /\ fsig = <<>>
    /\ envs = ClassEnvs
    /\ ntype = [p \in PathsOf(prog, <<>>) |-> UncomputedType]
    /\ nfunc = [p \in PathsOf(prog, <<>>) |-> UncomputedFunction]
    /\ nenv = [p \in PathsOf(prog, <<>>) |->
                  CASE NodeAt(prog, p).kind = "Block" -> DefaultBlockEnv
                    [] NodeAt(prog, p).kind = "For" -> DefaultForEnv
                    [] OTHER -> 0]
    /\ synth = {}
    /\ errs = <<>>
    /\ disabled = FALSE
    /\ raised = ""
    /\ \E flag \in {"absent", "False"} :
          ctx = [phase |-> 0, local_env |-> 0, in_loop |-> flag, trace |-> <<>>]
    /\ ndecls = 0
    /\ heap = BuiltinObjects
    /\ last = NoCall

\* the k-th pass over the whole tree; an exception ends the run
RunPass(k) ==
    /\ pc = k - 1
    /\ raised = ""
    /\ LET s == Visit(PassNames[k], [State EXCEPT !.ctx.phase = k], <<>>)
       IN /\ SetState(s)
          /\ pc' = IF Ok(s) THEN k ELSE pc
    /\ UNCHANGED <<prog, ndecls, heap, last>>

FindDecls == RunPass(1)
ResolveTypes == RunPass(2)
ResolveCalls == RunPass(3)
CheckNames == RunPass(4)
BasicControl == RunPass(5)
TypeCheck == RunPass(6)

Validate ==
    /\ pc = 6
    /\ raised = ""
    /\ LET s == Visit("validate", State, <<>>)
       IN /\ SetState(s)
          /\ pc' = IF Ok(s) THEN 7 ELSE pc
    /\ UNCHANGED <<prog, ndecls, heap, last>>

Next ==
    \/ FindDecls
    \/ ResolveTypes
    \/ ResolveCalls
    \/ CheckNames
    \/ BasicControl
    \/ TypeCheck
    \/ Validate

Spec == Init /\ [][Next]_vars

----------------------------------------------------------------------------
(* Direct calls on the environments: the operations of GlobalEnv and       *)
(* VarEnv with arguments drawn from small sets, in any order, as the       *)
(* passes call them.                                                       *)

UTypeNames == {"int", "S", "T"}
UFuncNames == {"string_to_int", "f", "g"}
UVarNames == {"x", "y"}
UVarTypes == {PrimitiveType("int"), PrimitiveType("long")}

UnitInit ==
    /\ prog = ProgramNode(<<>>)
    /\ pc = -1
    /\ gtypes = GlobalEnv_types
    /\ gfuncs = GlobalEnv_functions
    /\ fsig = <<>>
    /\ envs = ClassEnvs
    /\ ntype = [p \in {<<>>} |-> UncomputedType]
    /\ nfunc = [p \in {<<>>} |-> UncomputedFunction]
    /\ nenv = [p \in {<<>>} |-> 0]
    /\ synth = {}
    /\ errs = <<>>
    /\ disabled = FALSE
    /\ raised = ""
    /\ ctx = [phase |-> 0, local_env |-> 0, in_loop |-> "absent", trace |-> <<>>]
    /\ ndecls = 0
    /\ heap = BuiltinObjects
    /\ last = NoCall

UGuard == pc = -1 /\ raised = "" /\ Len(errs) < MaxErrors

\* the environments created by VarEnv(parent, ctx.global_env)
UEnvs == {e \in DOMAIN envs : envs[e].genv}

UAddType ==
    /\ UGuard
    /\ ndecls < MaxDecls
    /\ \E name \in UTypeNames :
          LET s == add_type(State, 1, <<ndecls + 1>>, name, <<ndecls + 1>>)
          IN /\ SetState(s)
             /\ last' = [NoCall EXCEPT !.op = "add_type", !.name = name,
                                       !.pos = <<ndecls + 1>>, !.rett = s.rett]
    /\ ndecls' = ndecls + 1
    /\ UNCHANGED <<prog, pc, heap>>

UAddFunction ==
    /\ UGuard
    /\ ndecls < MaxDecls
    /\ \E name \in UFuncNames :
          LET s == add_function(State, 1, <<ndecls + 1>>, name, <<ndecls + 1>>)
          IN /\ SetState(s)
             /\ last' = [NoCall EXCEPT !.op = "add_function", !.name = name,
                                       !.pos = <<ndecls + 1>>, !.retf = s.retf]
    /\ ndecls' = ndecls + 1
    /\ UNCHANGED <<prog, pc, heap>>

ULookupType ==
    /\ UGuard
    /\ \E name \in UTypeNames, strict \in BOOLEAN, pos \in {<<1>>} :
          LET s == lookup_type(State, 2, pos, name, strict)
          IN /\ SetState(s)
             /\ last' = [NoCall EXCEPT !.op = "lookup_type", !.name = name,
                                       !.strict = strict, !.pos = pos,
                                       !.rett = s.rett]
    /\ UNCHANGED <<prog, pc, ndecls, heap>>

ULookupFunction ==
    /\ UGuard
    /\ \E name \in UFuncNames, strict \in BOOLEAN, pos \in {<<1>>} :
          LET s == lookup_function(State, 3, pos, name, strict)
          IN /\ SetState(s)
             /\ last' = [NoCall EXCEPT !.op = "lookup_function", !.name = name,
                                       !.strict = strict, !.pos = pos,
                                       !.retf = s.retf]
    /\ UNCHANGED <<prog, pc, ndecls, heap>>

UVarEnv ==
    /\ UGuard
    /\ Cardinality(UEnvs) < MaxEnvs
    /\ \E parent \in {0} \cup UEnvs :
          /\ SetState(VarEnv(State, parent, TRUE))
          /\ last' = [NoCall EXCEPT !.op = "VarEnv", !.env = parent]
    /\ UNCHANGED <<prog, pc, ndecls, heap>>

\* the declaration at position ndecls + 1 is entered into environment e
UAddVariable ==
    /\ UGuard
    /\ ndecls < MaxDecls
    /\ \E e \in UEnvs, name \in UVarNames, type \in UVarTypes :
          /\ SetState(add_variable(State, 4, <<ndecls + 1>>, e, name, type))
          /\ last' = [NoCall EXCEPT !.op = "add_variable", !.name = name,
                                    !.env = e, !.pos = <<ndecls + 1>>,
                                    !.type = type]
    /\ ndecls' = ndecls + 1
    /\ UNCHANGED <<prog, pc, heap>>

UGetType ==
    /\ UGuard
    /\ \E e \in DOMAIN envs, name \in UVarNames, pos \in {<<1>>} :
          LET s == get_type(State, 4, pos, e, name)
          IN /\ SetState(s)
             /\ last' = [NoCall EXCEPT !.op = "get_type", !.name = name,
                                       !.env = e, !.pos = pos, !.rett = s.rett]
    /\ UNCHANGED <<prog, pc, ndecls, heap>>

GlobalEnvNext ==
    \/ UAddType
    \/ UAddFunction
    \/ ULookupType
    \/ ULookupFunction

GlobalEnvSpec == UnitInit /\ [][GlobalEnvNext]_vars

VarEnvNext ==
    \/ UVarEnv
    \/ UAddVariable
    \/ UGetType

VarEnvSpec == UnitInit /\ [][VarEnvNext]_vars

----------------------------------------------------------------------------
(* The error counter under direct calls of error() and disable_errors()    *)
(* between the calls on the global environment.                            *)

UError ==
    /\ UGuard
    /\ \E phase \in {1, 2}, pos \in {<<1>>} :
          /\ SetState(error(State, phase, pos, "message", NoInfo))
          /\ last' = [NoCall EXCEPT !.op = "error", !.pos = pos]
    /\ UNCHANGED <<prog, pc, ndecls, heap>>

UDisableErrors ==
    /\ UGuard
    /\ SetState(disable_errors(State))
    /\ last' = [NoCall EXCEPT !.op = "disable_errors"]
    /\ UNCHANGED <<prog, pc, ndecls, heap>>

ErrorNext ==
    \/ UError
    \/ UDisableErrors
    \/ UAddType
    \/ UAddFunction
    \/ ULookupType
    \/ ULookupFunction

ErrorSpec == UnitInit /\ [][ErrorNext]_vars

----------------------------------------------------------------------------
(* Direct calls on type and function objects: is_convertible_to,           *)
(* lookup_field and check_args, on the objects of a program that declares  *)
(* two structs and a function, after its declarations have been resolved   *)
(* and the arguments of its call site have been given their types.         *)

\* struct S { int x; long y; }  struct E { }  int g(S s, long n) { }
\* void main() { g(a, ..., a); }   with MaxArgs argument nodes
TypeProgram ==
    ProgramNode(<<
        StructDeclNode("S", <<FieldDeclNode(TypeNameNode("int"), "x"),
                              FieldDeclNode(TypeNameNode("long"), "y")>>),
        StructDeclNode("E", <<>>),
        FunctionDeclNode(TypeNameNode("int"), "g",
                         <<ParameterNode(TypeNameNode("S"), "s"),
                           ParameterNode(TypeNameNode("long"), "n")>>,
                         BlockNode(<<>>)),
        Main(<<>>, <<ExprStmt(CallNode("g",
                        [i \in 1..MaxArgs |-> Name("a")]))>>)>>)

TypeS == UserType("S", <<1>>)
TypeE == UserType("E", <<2>>)
FunctionG == UserFunction("g", <<3>>)
CallSite == <<4, 2, 1, 1>>

\* the type objects: the builtin types, the user types, the uncomputed type
\* and array types over them
TTypes ==
    {PrimitiveType(name) : name \in BuiltinTypeNames}
    \cup {TypeS, TypeE, UncomputedType}
    \cup {array_type(PrimitiveType("int")), array_type(PrimitiveType("long")),
          array_type(TypeS), array_type(array_type(PrimitiveType("int")))}

\* the types of the arguments at a call site
TArgTypes ==
    {PrimitiveType(name) : name \in {"int", "long", "double", "string", "null"}}
    \cup {TypeS, array_type(PrimitiveType("int"))}

TFieldNames == {"length", "x", "y", "z"}
TFunctions == {PrimitiveFunction("pow"), PrimitiveFunction("length"),
               PrimitiveFunction("substr"), PrimitiveFunction("peekchar"),
               FunctionG}

\* types are the types of the argument nodes of the call site
TypeInitWith(types) ==
    /\ prog = TypeProgram
    /\ pc = -1
    /\ gtypes = [name \in DOMAIN GlobalEnv_types \cup {"S", "E"} |->
                    CASE name = "S" -> TypeS
                      [] name = "E" -> TypeE
                      [] OTHER -> GlobalEnv_types[name]]
    /\ gfuncs = [name \in DOMAIN GlobalEnv_functions \cup {"g"} |->
                    IF name = "g" THEN FunctionG ELSE GlobalEnv_functions[name]]
    /\ fsig = [f \in {FunctionG} |->
                  [rettype |-> PrimitiveType("int"),
                   params |-> <<TypeS, PrimitiveType("long")>>]]
    /\ envs = ClassEnvs
    /\ ntype = [p \in PathsOf(prog, <<>>) |->
                  IF \E i \in 1..MaxArgs : p = Kid(CallSite, i)
                  THEN types[p[Len(p)]]
                  ELSE UncomputedType]
    /\ nfunc = [p \in PathsOf(prog, <<>>) |-> UncomputedFunction]
    /\ nenv = [p \in PathsOf(prog, <<>>) |->
                  IF NodeAt(prog, p).kind = "Block" THEN DefaultBlockEnv ELSE 0]
    /\ synth = {}
    /\ errs = <<>>
    /\ disabled = FALSE
    /\ raised = ""
    /\ ctx = [phase |-> 0, local_env |-> 0, in_loop |-> "absent", trace |-> <<>>]
    /\ ndecls = 0
    /\ heap = BuiltinObjects \o <<TypeObject(TypeS), TypeObject(TypeE)>>
    /\ last = NoCall

TypeInit == \E types \in [1..MaxArgs -> TArgTypes] : TypeInitWith(types)

\* one call is made on the objects of the program
TGuard == pc = -1 /\ raised = "" /\ last.op = "none"

\* the first n argument nodes of the call site, and their types
Args(n) == KidPaths(CallSite, 1, n)
ArgTypes(n) == [i \in 1..n |-> ntype[Kid(CallSite, i)]]

UIsConvertibleTo ==
    /\ TGuard
    /\ \E t \in TTypes, other \in TTypes :
          last' = [NoCall EXCEPT !.op = "is_convertible_to", !.type = t,
                                 !.other = other,
                                 !.retv = IF is_convertible_to(t, other)
                                          THEN "True" ELSE "False"]
    /\ UNCHANGED <<prog, pc, gtypes, gfuncs, fsig, envs, ntype, nfunc, nenv,
                   synth, errs, disabled, raised, ctx, ndecls, heap>>

ULookupField ==
    /\ TGuard
    /\ \E t \in TTypes, name \in TFieldNames :
          LET s == lookup_field(State, 6, CallSite, t, name)
          IN /\ SetState(s)
             /\ last' = [NoCall EXCEPT !.op = "lookup_field", !.type = t,
                                       !.name = name, !.pos = CallSite,
                                       !.rett = s.rett]
    /\ UNCHANGED <<prog, pc, ndecls, heap>>

UTypeCheckArgs ==
    /\ TGuard
    /\ \E t \in {u \in TTypes : has_elem_type(u) \/ IsUserType(u)},
          n \in 0..MaxArgs :
          LET s == Type_check_args(State, 6, CallSite, t, Args(n))
          IN /\ SetState(s)
             /\ last' = [NoCall EXCEPT !.op = "Type.check_args", !.type = t,
                                       !.args = ArgTypes(n), !.pos = CallSite,
                                       !.retv = s.retv]
    /\ UNCHANGED <<prog, pc, ndecls, heap>>

UFunctionCheckArgs ==
    /\ TGuard
    /\ \E f \in TFunctions, n \in 0..MaxArgs :
          LET s == Function_check_args(State, 6, CallSite, f, Args(n))
          IN /\ SetState(s)
             /\ last' = [NoCall EXCEPT !.op = "Function.check_args", !.func = f,
                                       !.args = ArgTypes(n), !.pos = CallSite,
                                       !.retv = s.retv]
    /\ UNCHANGED <<prog, pc, ndecls, heap>>

TypeNext ==
    \/ UIsConvertibleTo
    \/ ULookupField
    \/ UTypeCheckArgs
    \/ UFunctionCheckArgs

TypeSpec == TypeInit /\ [][TypeNext]_vars

----------------------------------------------------------------------------
(* Reads of the array_type property, on the type objects of the same       *)
(* program and on the array types the reads create.                        *)

\* the arguments of the call site have no type yet
ArrayTypeInit == TypeInitWith([i \in 1..MaxArgs |-> UncomputedType])

ArrayObjects == {t \in DOMAIN heap : heap[t].elem_type # 0}

\* t.array_type is read; cached is t._array_type before the read
UArrayType ==
    /\ pc = -1 /\ raised = ""
    /\ \E t \in DOMAIN heap :
          LET r == Type_array_type(heap, t)
          IN /\ Len(r.heap) - Cardinality(DOMAIN heap \ ArrayObjects) <= MaxArrays
             /\ heap' = r.heap
             /\ last' = [NoCall EXCEPT !.op = "array_type", !.obj = t,
                                       !.cached = heap[t].array_type,
                                       !.reto = r.ret]
    /\ UNCHANGED <<prog, pc, gtypes, gfuncs, fsig, envs, ntype, nfunc, nenv,
                   synth, errs, disabled, raised, ctx, ndecls>>

ArrayTypeNext == UArrayType

ArrayTypeSpec == ArrayTypeInit /\ [][ArrayTypeNext]_vars

----------------------------------------------------------------------------
(* Properties of the pipeline and of the environments.                     *)

Paths == DOMAIN ntype
KindAt(p) == NodeAt(prog, p).kind
Parent(p) == SubSeq(p, 1, Len(p) - 1)

\* the indices of the errors reported at position p
ErrorsAt(p) == {i \in DOMAIN errs : errs[i].at = p}

\* p lies in the body of a while or a for statement
InLoopBody(p) ==
    \E j \in 1..Len(p) :
        \/ KindAt(SubSeq(p, 1, j - 1)) = "While" /\ p[j] = 2
        \/ KindAt(SubSeq(p, 1, j - 1)) = "For" /\ p[j] = 4

\* C1: in the control-flow pass a break or continue inside the body of a
\* while or for loop reports zero errors, and one outside any loop reports
\* exactly one error for that statement.
C1_BreakContinueErrors ==
    pc >= 5 =>
        \A p \in Paths :
            KindAt(p) \in {"Break", "Continue"} =>
                Cardinality({i \in ErrorsAt(p) : errs[i].phase = 5})
                    = IF InLoopBody(p) THEN 0 ELSE 1

\* C2: running the six passes in order finishes without raising an
\* exception, whatever tree the parser produced.
C2_PassesNeverRaise == pc < 6 => raised = ""

\* C3: when the six passes have run and reported zero errors, no node has a
\* type attribute equal to uncomputed_type or a func attribute equal to
\* uncomputed_function.
C3_NoSentinelAfterCleanPasses ==
    (pc = 6 /\ errs = <<>>) =>
        \A p \in Paths :
            /\ HasTypeAttr(Node(State, p)) => ntype[p] # UncomputedType
            /\ HasFuncAttr(Node(State, p)) => nfunc[p] # UncomputedFunction

\* the environments from e up to the root, nearest first
RECURSIVE Chain(_)
Chain(e) == IF e = 0 THEN <<>> ELSE <<e>> \o Chain(envs[e].parent)

\* the environments of the chain of e that bind name, by their place in it
Binders(e, name) ==
    {i \in DOMAIN Chain(e) : name \in DOMAIN envs[Chain(e)[i]].vars}
BoundInChain(e, name) == Binders(e, name) # {}
\* the binding of name that is nearest to e
NearestBinding(e, name) ==
    LET i == CHOOSE i \in Binders(e, name) : \A j \in Binders(e, name) : i <= j
    IN envs[Chain(e)[i]].vars[name]

\* environment e does not bind name and one of its ancestors does
BoundOnlyOutside(e, name) ==
    /\ name \notin DOMAIN envs[e].vars
    /\ envs[e].parent # 0
    /\ BoundInChain(envs[e].parent, name)

\* the state a lookup of the latest call's name, from the environment of
\* the latest call, ends in
LookupAgain == get_type(State, 4, last.pos, last.env, last.name)

C5_AddVariable ==
    [][(last'.op = "add_variable" /\ ndecls' = ndecls + 1) =>
          IF BoundInChain(last'.env, last'.name)
          THEN /\ envs' = envs
               /\ errs' = Append(errs,
                      [phase |-> 4, at |-> last'.pos, msg |-> "redeclaration",
                       name |-> last'.name,
                       prev |-> NearestBinding(last'.env, last'.name).pos,
                       exp |-> NoneValue, got |-> NoneValue, index |-> 0,
                       trace |-> <<>>])
          ELSE /\ errs' = errs
               /\ DOMAIN envs' = DOMAIN envs
               /\ \A e \in DOMAIN envs :
                     /\ envs'[e].parent = envs[e].parent
                     /\ e # last'.env => envs'[e] = envs[e]
               /\ DOMAIN envs'[last'.env].vars
                      = DOMAIN envs[last'.env].vars \cup {last'.name}
               /\ \A x \in DOMAIN envs[last'.env].vars :
                     envs'[last'.env].vars[x] = envs[last'.env].vars[x]
               /\ envs'[last'.env].vars[last'.name]
                      = [type |-> last'.type, pos |-> last'.pos]]_vars

\* the same name was declared twice in one environment, the second time
\* with another type: one redeclaration error citing the first position,
\* and the name keeps its first type
C5_Witness ==
    /\ last.op = "add_variable"
    /\ Len(errs) = 1
    /\ errs[1].msg = "redeclaration"
    /\ errs[1].at = last.pos
    /\ last.name \in DOMAIN envs[last.env].vars
    /\ errs[1].prev = envs[last.env].vars[last.name].pos
    /\ envs[last.env].vars[last.name].type # last.type

\* the objects held by the type table, and by the function table
TableTypes == {gtypes[n] : n \in DOMAIN gtypes}
TableFunctions == {gfuncs[n] : n \in DOMAIN gfuncs}

\* C6: add_type and add_function with a name already in the table report
\* exactly one redefinition error, leave the table unchanged and return a
\* fresh object, distinct from every table entry, bound to the new
\* declaration; with a new name they report nothing and the returned
\* object becomes the table entry, the other entries staying as they are.
C6_AddTypeAddFunction ==
    [][(ndecls' = ndecls + 1) =>
          /\ last'.op = "add_type" =>
                /\ gfuncs' = gfuncs
                /\ last'.rett = UserType(last'.name, last'.pos)
                /\ IF last'.name \in DOMAIN gtypes
                   THEN /\ gtypes' = gtypes
                        /\ last'.rett \notin TableTypes
                        /\ Len(errs') = Len(errs) + 1
                        /\ SubSeq(errs', 1, Len(errs)) = errs
                        /\ errs'[Len(errs')].msg = "redefinition of type"
                        /\ errs'[Len(errs')].name = last'.name
                        /\ errs'[Len(errs')].at = last'.pos
                   ELSE /\ errs' = errs
                        /\ DOMAIN gtypes' = DOMAIN gtypes \cup {last'.name}
                        /\ gtypes'[last'.name] = last'.rett
                        /\ \A n \in DOMAIN gtypes : gtypes'[n] = gtypes[n]
          /\ last'.op = "add_function" =>
                /\ gtypes' = gtypes
                /\ last'.retf = UserFunction(last'.name, last'.pos)
                /\ IF last'.name \in DOMAIN gfuncs
                   THEN /\ gfuncs' = gfuncs
                        /\ last'.retf \notin TableFunctions
                        /\ Len(errs') = Len(errs) + 1
                        /\ SubSeq(errs', 1, Len(errs)) = errs
                        /\ errs'[Len(errs')].msg = "redefinition of function"
                        /\ errs'[Len(errs')].name = last'.name
                        /\ errs'[Len(errs')].at = last'.pos
                   ELSE /\ errs' = errs
                        /\ DOMAIN gfuncs' = DOMAIN gfuncs \cup {last'.name}
                        /\ gfuncs'[last'.name] = last'.retf
                        /\ \A n \in DOMAIN gfuncs : gfuncs'[n] = gfuncs[n]]_vars

\* a second declaration of a user-declared type name: one error, and the
\* table still holds the object of the first declaration
C6_Witness ==
    /\ last.op = "add_type"
    /\ last.name \in DOMAIN gtypes
    /\ gtypes[last.name].k = "user"
    /\ gtypes[last.name] # last.rett
    /\ Len(errs) = 1
    /\ errs[1].msg = "redefinition of type"
    /\ errs[1].prev = gtypes[last.name].decl

\* C7: lookup_type and lookup_function of a name that is not in the table
\* report exactly one 'undefined' error and return the builtin int type
\* (the builtin string_to_int function) when strict, and report nothing
\* and return None when not strict; of a name in the table they report
\* nothing and return the table entry.  The tables never change.
C7_Lookup ==
    [][(ndecls' = ndecls /\ last'.op \in {"lookup_type", "lookup_function"}) =>
          /\ gtypes' = gtypes
          /\ gfuncs' = gfuncs
          /\ last'.op = "lookup_type" =>
                IF last'.name \in DOMAIN gtypes
                THEN errs' = errs /\ last'.rett = gtypes[last'.name]
                ELSE IF last'.strict
                     THEN /\ last'.rett = PrimitiveType("int")
                          /\ errs' = Append(errs,
                                 [phase |-> 2, at |-> last'.pos,
                                  msg |-> "undefined type", name |-> last'.name,
                                  prev |-> NoPath, exp |-> NoneValue,
                                  got |-> NoneValue, index |-> 0,
                                  trace |-> <<>>])
                     ELSE errs' = errs /\ last'.rett = NoneValue
          /\ last'.op = "lookup_function" =>
                IF last'.name \in DOMAIN gfuncs
                THEN errs' = errs /\ last'.retf = gfuncs[last'.name]
                ELSE IF last'.strict
                     THEN /\ last'.retf = PrimitiveFunction("string_to_int")
                          /\ errs' = Append(errs,
                                 [phase |-> 3, at |-> last'.pos,
                                  msg |-> "undefined function",
                                  name |-> last'.name,
                                  prev |-> NoPath, exp |-> NoneValue,
                                  got |-> NoneValue, index |-> 0,
                                  trace |-> <<>>])
                     ELSE errs' = errs /\ last'.retf = NoFunction]_vars

\* a strict lookup of a function name that is not in the table, after a
\* declaration was added: one error, and string_to_int is returned
C7_Witness ==
    /\ last.op = "lookup_function"
    /\ last.strict
    /\ last.name \notin DOMAIN gfuncs
    /\ ndecls > 0
    /\ last.retf = PrimitiveFunction("string_to_int")
    /\ Len(errs) > 0
    /\ errs[Len(errs)].msg = "undefined function"
    /\ errs[Len(errs)].name = last.name

\* C8: get_type returns the type of the nearest binding of the name in the
\* chain of the environment and reports nothing; when no environment of
\* the chain binds the name it reports exactly one 'undefined variable or
\* field' error and returns the global int type.
C8_GetType ==
    [][(ndecls' = ndecls /\ last'.op = "get_type") =>
          /\ envs' = envs
          /\ raised' = ""
          /\ IF BoundInChain(last'.env, last'.name)
             THEN /\ errs' = errs
                  /\ last'.rett = NearestBinding(last'.env, last'.name).type
             ELSE /\ last'.rett = PrimitiveType("int")
                  /\ errs' = Append(errs,
                         [phase |-> 4, at |-> last'.pos,
                          msg |-> "undefined variable or field",
                          name |-> last'.name,
                          prev |-> NoPath, exp |-> NoneValue,
                          got |-> NoneValue, index |-> 0,
                                  trace |-> <<>>])]_vars

\* the names of the functions of the global environment: the builtin ones
\* and those the program declares
DeclaredFunctions ==
    DOMAIN GlobalEnv_functions
    \cup {prog.kids[i].name :
             i \in {j \in DOMAIN prog.kids : prog.kids[j].kind = "FunctionDecl"}}

\* C9: after the six passes a call of a function name that is not declared
\* has func bound to string_to_int, and the only error reported for the
\* call is the undefined-function error of the call-resolution pass.
C9_UndeclaredCallOneError ==
    pc >= 6 =>
        \A p \in Paths :
            (KindAt(p) = "Call" /\ NodeAt(prog, p).name \notin DeclaredFunctions) =>
                /\ nfunc[p] = PrimitiveFunction("string_to_int")
                /\ Cardinality(ErrorsAt(p)) = 1
                /\ \A i \in ErrorsAt(p) :
                      errs[i].phase = 3 /\ errs[i].msg = "undefined function"

\* the struct declarations of the program, by name
StructDecls ==
    {i \in DOMAIN prog.kids : prog.kids[i].kind = "StructDecl"}

\* p is new S(a1..an) for a declared struct S with n fields, the type of
\* each argument being the declared type of the field at its position
IsMatchingNew(p) ==
    /\ KindAt(p) = "New"
    /\ KindAt(Kid(p, 1)) = "TypeName"
    /\ \E i \in StructDecls :
          LET decl == prog.kids[i]
          IN /\ decl.name = NodeAt(prog, Kid(p, 1)).name
             /\ Len(decl.kids) = Len(NodeAt(prog, p).kids) - 1
             /\ \A j \in DOMAIN decl.kids :
                   /\ decl.kids[j].kids[1].kind = "TypeName"
                   /\ ntype[Kid(p, j + 1)]
                          = PrimitiveType(decl.kids[j].kids[1].name)

\* q reads the field of a declared struct that stands at place j, through
\* a receiver whose type is that struct's type object
IsFieldRead(q, i, j) ==
    /\ KindAt(q) = "FieldAccess"
    /\ ntype[Kid(q, 1)] = UserType(prog.kids[i].name, <<i>>)
    /\ j \in DOMAIN prog.kids[i].kids
    /\ prog.kids[i].kids[j].name = NodeAt(prog, q).field
    /\ prog.kids[i].kids[j].kids[1].kind = "TypeName"

\* C10: for a declared struct S with fields of types T1..Tn the analysis of
\* new S(a1..an), each ai of type Ti, completes with zero errors and gives
\* the new node the type object of S, and a field access on an expression
\* of type S naming the i-th field gets the type Ti.
C10_NewAndFieldAccess ==
    pc >= 5 =>
        /\ \A p \in Paths :
              IsMatchingNew(p) =>
                  /\ raised = ""
                  /\ ErrorsAt(p) = {}
                  /\ \E i \in StructDecls :
                        ntype[p] = UserType(prog.kids[i].name, <<i>>)
        /\ \A q \in Paths : \A i \in StructDecls :
          \A j \in DOMAIN prog.kids[i].kids :
              IsFieldRead(q, i, j) =>
                  /\ raised = ""
                  /\ pc >= 6 =>
                        ntype[q] = PrimitiveType(prog.kids[i].kids[j].kids[1].name)

----------------------------------------------------------------------------
(* Expressions *)

\* a binary + whose left operand has been given the type string
IsStringPlus(p) ==
    /\ KindAt(p) = "Plus"
    /\ ntype[Kid(p, 1)] = PrimitiveType("string")

\* C11: after the type-checking pass a binary + whose left operand has type
\* string has type string, and the pass reported no error at that node,
\* whatever the type of its right operand.
C11_StringPlus ==
    (pc >= 6 /\ raised = "") =>
        \A p \in Paths :
            IsStringPlus(p) =>
                /\ ntype[p] = PrimitiveType("string")
                /\ {i \in ErrorsAt(p) : errs[i].phase = 6} = {}

\* "a" + 1 has been type-checked: no error, and the node has type string
C11_Witness ==
    /\ pc >= 6 /\ raised = ""
    /\ \E p \in Paths :
          /\ IsStringPlus(p)
          /\ NodeAt(prog, Kid(p, 1)).kind = "String"
          /\ ntype[Kid(p, 2)] = PrimitiveType("int")
          /\ ntype[p] = PrimitiveType("string")
          /\ errs = <<>>

----------------------------------------------------------------------------
(* Types and functions *)

TypeInt == PrimitiveType("int")
TypeLong == PrimitiveType("long")
TypeDouble == PrimitiveType("double")

\* the relation the types are convertible by
Convertible(t, u) ==
    \/ t = u
    \/ <<t, u>> \in {<<TypeInt, TypeLong>>, <<TypeInt, TypeDouble>>, <<TypeLong, TypeDouble>>}
    \/ t = PrimitiveType("null") /\ (IsArrayType(u) \/ IsUserType(u))

C13_ArrayTypeCached ==
    /\ last.op = "array_type" =>
          /\ last.cached # 0 => last.reto = last.cached
          /\ IF heap[last.obj].type.k = "uncomputed"
             THEN last.reto = last.obj
             ELSE /\ heap[last.reto].elem_type = last.obj
                  /\ heap[last.obj].array_type = last.reto
          /\ \A u \in DOMAIN heap \ {last.obj} :
                heap[u].array_type # last.reto
    /\ \A t, u \in ArrayObjects :
          heap[t].elem_type = heap[u].elem_type => t = u
    /\ \A t, u \in DOMAIN heap : heap[t].type = heap[u].type => t = u

\* the array type of an array type has been read a second time
C13_Witness ==
    /\ last.op = "array_type"
    /\ last.obj \in ArrayObjects
    /\ last.cached # 0
    /\ last.reto = last.cached
    /\ heap[last.reto].type.dims = 2

\* the declared type of field name of user type t, None if t has none
FieldType(t, name) ==
    LET fields == NodeAt(prog, t.decl).kids
        found == {i \in DOMAIN fields : fields[i].name = name}
    IN IF found = {} THEN NoneValue
       ELSE gtypes[fields[CHOOSE i \in found : TRUE].kids[1].name]

\* C14: lookup_field on an array type returns int, with no error for the name
\* length and one error for any other name; on a user type it returns the
\* declared type of a declared field with no error, and int with one error
\* for any other name; on a primitive type it returns int with one error.
C14_LookupField ==
    (last.op = "lookup_field" /\ last.type.k # "uncomputed") =>
        LET found == IF IsArrayType(last.type) THEN last.name = "length"
                     ELSE IsUserType(last.type)
                          /\ FieldType(last.type, last.name) # NoneValue
        IN /\ raised = ""
           /\ Len(errs) = IF found THEN 0 ELSE 1
           /\ last.rett = IF found /\ IsUserType(last.type)
                          THEN FieldType(last.type, last.name)
                          ELSE TypeInt

\* the arguments whose type is not the element type of array type t
Mismatches(t, types) == {i \in DOMAIN types : types[i] # elem_type(t)}

\* C15: ArrayType.check_args reports one error for each argument whose type
\* is not the element type itself, and nothing when every argument matches.
C15_ArrayCheckArgs ==
    (last.op = "Type.check_args" /\ IsArrayType(last.type)) =>
        /\ raised = ""
        /\ Len(errs) = Cardinality(Mismatches(last.type, last.args))

\* the declared types of the fields of user type t, in order
FieldTypes(t) ==
    LET fields == NodeAt(prog, t.decl).kids
    IN [i \in DOMAIN fields |-> gtypes[fields[i].kids[1].name]]

\* the positions at which an argument of the types is neither of the
\* expected type nor convertible to it
Incompatible(expected, types) ==
    {i \in DOMAIN types :
        types[i] # expected[i] /\ ~Convertible(types[i], expected[i])}

\* C16: UserType.check_args reports nothing for zero arguments; one arity
\* error for a non-zero number of arguments that is not the number of
\* fields; with matching arity, nothing when every argument is of the field's
\* type or convertible to it, and otherwise an error with the expected type,
\* the actual type and the position of the mismatch.
C16_UserCheckArgs ==
    (last.op = "Type.check_args" /\ IsUserType(last.type)) =>
        LET expected == FieldTypes(last.type)
            n == Len(last.args)
        IN /\ raised = ""
           /\ IF n = 0 THEN errs = <<>>
              ELSE IF n # Len(expected)
                   THEN Len(errs) = 1 /\ errs[1].msg = "type expected arguments"
                   ELSE IF Incompatible(expected, last.args) = {}
                        THEN errs = <<>>
                        ELSE /\ Len(errs) >= 1
                             /\ errs[1].index \in Incompatible(expected, last.args)
                             /\ errs[1].exp = expected[errs[1].index]
                             /\ errs[1].got = last.args[errs[1].index]

\* C17: Function.check_args reports at most one error: the arity error when
\* the number of arguments is not the number of parameters; otherwise one
\* error for the first position whose argument type is neither the parameter
\* type nor convertible to it, and none for later positions; when every
\* position is compatible it reports nothing and returns True.
C17_FunctionCheckArgs ==
    last.op = "Function.check_args" =>
        LET params == param_types(State, last.func)
            bad == Incompatible(params, last.args)
        IN /\ raised = ""
           /\ Len(errs) <= 1
           /\ IF Len(last.args) # Len(params)
              THEN /\ Len(errs) = 1
                   /\ errs[1].msg = "function expected arguments"
                   /\ last.retv = "False"
              ELSE IF bad = {}
                   THEN errs = <<>> /\ last.retv = "True"
                   ELSE /\ Len(errs) = 1
                        /\ errs[1].msg = "type not compatible with parameter"
                        /\ errs[1].index \in bad
                        /\ \A i \in bad : errs[1].index <= i
                        /\ errs[1].exp = params[errs[1].index]
                        /\ errs[1].got = last.args[errs[1].index]
                        /\ last.retv = "False"

\* pow has been called with two strings: one error, for position 1
C17_Witness ==
    /\ last.op = "Function.check_args"
    /\ last.func = PrimitiveFunction("pow")
    /\ last.args = <<PrimitiveType("string"), PrimitiveType("string")>>
    /\ Len(errs) = 1
    /\ errs[1].index = 1
    /\ last.retv = "False"

----------------------------------------------------------------------------
(* Errors *)

\* C18: no step decreases or resets the error count; a call of error()
\* increases it by exactly one while reporting is enabled and leaves it
\* unchanged after disable_errors(); disable_errors() itself leaves it
\* unchanged; and once reporting is disabled no operation changes it, every
\* change being made through error().
C18_ErrorCounter ==
    [][/\ Len(errs') >= Len(errs)
       /\ SubSeq(errs', 1, Len(errs)) = errs
       /\ last'.op = "error" =>
              Len(errs') = Len(errs) + (IF disabled THEN 0 ELSE 1)
       /\ last'.op = "disable_errors" => errs' = errs /\ disabled'
       /\ disabled => errs' = errs /\ disabled']_vars

\* error() has been called after disable_errors(), one error having been
\* counted before
C18_Witness ==
    /\ disabled
    /\ last.op = "error"
    /\ Len(errs) = 1

----------------------------------------------------------------------------
(* Scopes and assignments *)

ScopeKinds == {"FunctionDecl", "StructDecl", "Block", "For"}

\* pass number k, called on the node at p in the current state, returns with
\* ctx['local_env'] as it was at the call
Restores(pass, k, p) ==
    LET s == Visit(pass, [State EXCEPT !.ctx.phase = k], p)
    IN Ok(s) => s.ctx.local_env = ctx.local_env

\* C19: check_names and type_check, called on a function declaration, a
\* struct declaration, a block or a for statement, return with
\* ctx['local_env'] equal to its value at the call.
C19_LocalEnvRestored ==
    raised = "" =>
        \A p \in Paths :
            KindAt(p) \in ScopeKinds =>
                /\ pc = 3 => Restores("check_names", 4, p)
                /\ pc = 5 => Restores("type_check", 6, p)

\* the l-value errors the type-checking pass reported at node p
LvalueErrorsAt(p) ==
    {i \in ErrorsAt(p) :
        /\ errs[i].phase = 6
        /\ errs[i].msg = "assignment operator expects l-value on left-hand side"}

\* C20: after the type-checking pass an assignment has an l-value error
\* exactly when its left operand is neither a field access nor an array
\* index expression, and its type is the type of its left operand.
C20_AssignLvalue ==
    (pc >= 6 /\ raised = "") =>
        \A p \in Paths :
            KindAt(p) = "Assign" =>
                /\ LvalueErrorsAt(p) # {}
                      <=> KindAt(Kid(p, 1)) \notin {"FieldAccess", "ArrayIndex"}
                /\ ntype[p] = ntype[Kid(p, 1)]

----------------------------------------------------------------------------
(* Expressions: array indexing, arithmetic and literals.                   *)

\* the errors of the type-checking pass at position p with message msg
TypeErrorsAt(p, msg) ==
    {i \in ErrorsAt(p) : errs[i].phase = 6 /\ errs[i].msg = msg}

\* C21: after the type-checking pass an array index expression has a
\* non-array error exactly when its receiver's type is not an array type;
\* when it is one, the expression has a non-integral-index error exactly
\* when the type of its index is not int or long, and none for an index
\* i + 1 whose operands are of type int; the expression's type is computed,
\* and is the element type of an array receiver.
C21_ArrayIndex ==
    (pc >= 6 /\ raised = "") =>
        \A p \in Paths :
            KindAt(p) = "ArrayIndex" =>
                LET recv == ntype[Kid(p, 1)]
                    index == ntype[Kid(p, 2)]
                    nonarray == TypeErrorsAt(p, "Cannot index into non-array.")
                    nonint == TypeErrorsAt(p, "Cannot index non-integer into array.")
                IN /\ nonarray # {} <=> ~IsArrayType(recv)
                   /\ IsArrayType(recv) => (nonint # {} <=> ~is_integral(index))
                   /\ ( /\ IsArrayType(recv)
                        /\ KindAt(Kid(p, 2)) = "Plus"
                        /\ is_integral(ntype[Kid(p, 2) \o <<1>>])
                        /\ is_integral(ntype[Kid(p, 2) \o <<2>>]) ) => nonint = {}
                   /\ ntype[p] # UncomputedType
                   /\ IsArrayType(recv) => ntype[p] = elem_type(recv)

ArithKinds == BinaryArithKinds \ {"Plus"}

\* the type-checking pass calls type_check on the node at p: every class
\* passes type_check on to its operands except NewNode, FieldAccessNode and
\* ArrayIndexNode (ucexpr.py 227, 259, 289)
TypeChecked(p) ==
    \A j \in 0..(Len(p) - 1) :
        KindAt(SubSeq(p, 1, j)) \notin {"New", "FieldAccess", "ArrayIndex"}

\* the distinct errors that arithmetic type-checking reported at operand p
OperandErrors(p) ==
    {errs[i] : i \in TypeErrorsAt(p, "binary operator expects int, long, or double")}

\* C22: after the type-checking pass, each operand of a type-checked -, *,
\* / or % node whose type is not int, long or double has one error at the
\* operand's position that names the operand's type, an operand of a
\* numeric type has none, and the node's type is the type of its left
\* operand.
C22_BinaryArith ==
    (pc >= 6 /\ raised = "") =>
        \A p \in Paths :
            (KindAt(p) \in ArithKinds /\ TypeChecked(p)) =>
                /\ \A i \in 1..2 :
                      IF is_numeric(ntype[Kid(p, i)])
                      THEN OperandErrors(Kid(p, i)) = {}
                      ELSE /\ Cardinality(OperandErrors(Kid(p, i))) = 1
                           /\ \A e \in OperandErrors(Kid(p, i)) :
                                 e.got = ntype[Kid(p, i)]
                /\ ntype[p] = ntype[Kid(p, 1)]

\* a - node with two operands in error and one with two numeric operands
\* of different types have been type-checked
C22_Witness ==
    /\ pc >= 6 /\ raised = ""
    /\ \E p \in Paths :
          /\ KindAt(p) \in ArithKinds /\ TypeChecked(p)
          /\ OperandErrors(Kid(p, 1)) # {}
          /\ OperandErrors(Kid(p, 2)) # {}
          /\ ntype[p] = PrimitiveType("string")

\* C23: after the type-checking pass a binary + whose operands both have a
\* numeric type has no error at its position, whether or not the two types
\* are the same.
C23_NumericPlus ==
    (pc >= 6 /\ raised = "") =>
        \A p \in Paths :
            ( /\ KindAt(p) = "Plus"
              /\ is_numeric(ntype[Kid(p, 1)])
              /\ is_numeric(ntype[Kid(p, 2)]) ) =>
                {i \in ErrorsAt(p) : errs[i].phase = 6} = {}

\* the type a literal's text denotes
LiteralType(n) ==
    CASE n.kind = "Integer" ->
             IF n.text[Len(n.text)] \in {"l", "L"}
             THEN PrimitiveType("long") ELSE PrimitiveType("int")
      [] n.kind = "Double" -> PrimitiveType("double")
      [] n.kind = "String" -> PrimitiveType("string")
      [] n.kind = "Boolean" -> PrimitiveType("boolean")
      [] n.kind = "Null" -> PrimitiveType("null")

\* C24: from the end of the type-resolution pass on, hence before the
\* type-checking pass, every literal has the type its text denotes: long
\* for an integer literal with suffix l or L, int for one without, and
\* double, string, boolean and null for the other literals.
C24_LiteralTypes ==
    (pc >= 2 /\ raised = "") =>
        \A p \in Paths :
            KindAt(p) \in LiteralKinds => ntype[p] = LiteralType(NodeAt(prog, p))

----------------------------------------------------------------------------
(* Statements: for scopes, the loop flag and variable definitions.         *)

\* q lies strictly below p
Below(p, q) == Len(q) > Len(p) /\ SubSeq(q, 1, Len(p)) = p

\* the uses of name as a name expression at or below p
Uses(p, name) ==
    {q \in Paths : /\ q = p \/ Below(p, q)
                   /\ KindAt(q) = "NameExpression"
                   /\ NodeAt(prog, q).name = name}

\* the undefined-variable errors of the name-checking pass at position q
UndefinedErrorsAt(q) ==
    {i \in ErrorsAt(q) :
        errs[i].phase = 4 /\ errs[i].msg = "undefined variable or field"}

\* C25: after the name-checking pass the scope of a for statement with an
\* init variable is chained to the enclosing scope and binds the variable;
\* every use of the variable in the test, the update and the body has the
\* variable's declared type and no undefined-variable error, and every use
\* of it in a statement after the loop, where no other definition of the
\* name is in scope, has an undefined-variable error.
C25_ForScope ==
    (pc >= 4 /\ raised = "") =>
        \A p \in Paths :
            (KindAt(p) = "For" /\ KindAt(Kid(p, 1)) = "VarDef") =>
                LET name == NodeAt(prog, Kid(p, 1)).name
                    declared == ntype[Kid(Kid(p, 1), 1)]
                    outer == nenv[Parent(p)]
                    later == {q \in Paths : /\ Len(q) >= Len(p)
                                            /\ Parent(SubSeq(q, 1, Len(p))) = Parent(p)
                                            /\ q[Len(p)] > p[Len(p)]}
                IN /\ envs[nenv[p]].parent = outer
                   /\ name \in DOMAIN envs[nenv[p]].vars
                   /\ \A k \in 2..4 : \A q \in Uses(Kid(p, k), name) :
                         /\ ntype[q] = declared
                         /\ UndefinedErrorsAt(q) = {}
                   /\ ~BoundInChain(outer, name) =>
                         \A q \in later :
                             (KindAt(q) = "NameExpression"
                              /\ NodeAt(prog, q).name = name)
                                 => UndefinedErrorsAt(q) # {}

LoopKinds == {"While", "For"}

\* basic_control, called on the node at p with ctx['in_loop'] = flag,
\* returns with ctx['in_loop'] = flag
RestoresInLoop(p, flag) ==
    LET s == Visit("basic_control",
                   [State EXCEPT !.ctx.phase = 5, !.ctx.in_loop = flag], p)
    IN Ok(s) => s.ctx.in_loop = flag

\* the errors of the control-flow pass at position p
ControlErrorsAt(p) == {i \in ErrorsAt(p) : errs[i].phase = 5}

\* C26: basic_control, called on a while or a for statement with the
\* inside-loop flag True or False, returns with the flag at the value it had
\* at the call; and after the control-flow pass a break or continue in a
\* loop body has no more errors than the one that a break or continue
\* reports when the flag is True, whatever precedes it in the body.
C26_InLoopRestored ==
    raised = "" =>
        /\ pc = 4 =>
              \A p \in Paths :
                  KindAt(p) \in LoopKinds =>
                      \A flag \in {"True", "False"} : RestoresInLoop(p, flag)
        /\ pc >= 5 =>
              \A q \in Paths :
                  (KindAt(q) \in {"Break", "Continue"} /\ InLoopBody(q)) =>
                      Cardinality(ControlErrorsAt(q)) <= 1

----------------------------------------------------------------------------
(* Passes over arguments and operands, and validate.                       *)

\* the errors of any pass at position q with message msg
Diagnostics(q, msg) == {i \in ErrorsAt(q) : errs[i].msg = msg}

\* C27: after the six passes no name expression has more than one
\* undefined-variable error and no operand has more than one
\* non-numeric-operand error: no pass operation ran twice on a node.
C27_OneDiagnostic ==
    (pc >= 6 /\ raised = "") =>
        \A q \in Paths :
            /\ Cardinality(Diagnostics(q, "undefined variable or field")) <= 1
            /\ Cardinality(Diagnostics(q,
                    "binary operator expects int, long, or double")) <= 1

\* the argument expressions of the call or new expression at p
Arguments(p) ==
    LET n == NodeAt(prog, p)
    IN {Kid(p, i) : i \in (IF n.kind = "New" THEN 2 ELSE 1)..Len(n.kids)}

\* C28: after the type-checking pass every argument of a type-checked call
\* or new expression, the expressions check_args was given, holds the type
\* that type_check computes for it: never the sentinel, the type of the
\* left operand for a -, *, / or % argument, and the return type of the
\* function called for a call argument.
C28_ArgumentsTypeChecked ==
    (pc >= 6 /\ raised = "") =>
        \A p \in Paths :
            (KindAt(p) \in {"Call", "New"} /\ TypeChecked(p)) =>
                \A q \in Arguments(p) :
                    /\ ntype[q] # UncomputedType
                    /\ KindAt(q) \in ArithKinds => ntype[q] = ntype[Kid(q, 1)]
                    /\ KindAt(q) = "Call" => ntype[q] = rettype(State, nfunc[q])

\* the nodes from the root down to the node at p
RootPath(p) == [j \in 1..(Len(p) + 1) |-> SubSeq(p, 1, j - 1)]

\* the reports with message msg at position p among those that a step added
Added(p, msg) ==
    {i \in (Len(errs) + 1)..Len(errs') : errs'[i].at = p /\ errs'[i].msg = msg}

\* C29: a validate step keeps the errors reported so far and adds, for
\* each node, one report per type attribute and one per func attribute that
\* equals its sentinel and none for the others; the trace of each report is
\* the sequence of nodes from the root to the node it is about; and
\* ctx['trace'] after the step is what it was before.
C29_Validate ==
    [][(pc = 6 /\ pc' = 7) =>
          /\ Len(errs') >= Len(errs)
          /\ SubSeq(errs', 1, Len(errs)) = errs
          /\ \A p \in Paths :
                /\ Cardinality(Added(p, "uncomputed type")) =
                      IF HasTypeAttr(Node(State, p)) /\ ntype[p] = UncomputedType
                      THEN 1 ELSE 0
                /\ Cardinality(Added(p, "uncomputed function")) =
                      IF HasFuncAttr(Node(State, p)) /\ nfunc[p] = UncomputedFunction
                      THEN 1 ELSE 0
          /\ \A i \in (Len(errs) + 1)..Len(errs') :
                /\ errs'[i].msg \in {"uncomputed type", "uncomputed function"}
                /\ errs'[i].trace = RootPath(errs'[i].at)
          /\ ctx'.trace = ctx.trace]_vars

\* validate has reported a sentinel type on a node three or more levels
\* below the root, and another report of it is about a different node
C29_Witness ==
    /\ pc = 7 /\ raised = ""
    /\ \E i, j \in DOMAIN errs :
          /\ errs[i].msg = "uncomputed type" /\ Len(errs[i].trace) >= 4
          /\ errs[j].msg = "uncomputed type" /\ errs[j].at # errs[i].at

\* the definitions and parameters that declare name
Declarations(name) ==
    {q \in Paths : /\ KindAt(q) \in {"VarDef", "Parameter"}
                   /\ NodeAt(prog, q).name = name}

\* the statements of the block of statement st before it, and after it
Earlier(st) == {Kid(Parent(st), j) : j \in 1..(st[Len(st)] - 1)}
Later(st) ==
    {Kid(Parent(st), j) :
        j \in (st[Len(st)] + 1)..Len(NodeAt(prog, Parent(st)).kids)}

====
